---------------------------- MODULE Spec2Model ----------------------------
(***************************************************************************)
(* Model of the merge-request summarizer service: the deduplicating        *)
(* mailbox poller (src/src/client/email_monitor.py), the event queue and   *)
(* its single consumer (src/main.py, src/src/client/standalone_client.py), *)
(* the pipeline orchestrators (src/src/client/orchestrator.py and          *)
(* StandaloneOrchestrator) and the file-backed dedupe store                *)
(* (src/src/utils/email_storage.py).                                       *)
(*                                                                         *)
(* Python's Optional values are modelled as sequences of length at most    *)
(* one: None is << >> and a present value x is << x >>.                     *)
(***************************************************************************)
EXTENDS Integers, Sequences, FiniteSets, TLC

\* ------------------------------------------------------------------ bounds
\* Number of messages that ever arrive in the mailbox.
MaxMsgs == 2
\* Number of the last process start (each restart begins a new epoch).
MaxEpoch == 2
MaxOverflow == 2

\* Number of text pieces in a subject and in a body that is classified.
MaxSubject == 1
MaxBody == 3

\* Number of text pieces in a body from which a url is extracted.
MaxUrlBody == 6

\* Number of pieces in a string that is parsed as a merge-request url.
MaxRefUrl == 6

\* Number of processes that use the shared dedupe backend, and the number of
\* times each of them is started.
MaxClients == 2
MaxStarts == 2
\* Files in one list of changes, and lines in one diff.
MaxChangeFiles == 2
MaxDiffLines == 2

\* -------------------------------------------------------- program constants
\* email_ids[-50:]: only the last 50 ids of a search result are candidates.
ScanCap == 50
\* int(os.getenv("MAX_FILES_IN_PROMPT", "999999")), and the same default for
\* MAX_DIFF_LINES_PER_FILE: "no limit by default".
NoLimit == 999999
\* _summarize_code_changes: "for change in changes[:20]".
McpFileLimit == 20
\* _summarize_code_changes: "if len(diff) > 2000: diff = diff[:2000] + ...".
McpDiffChars == 2000

VARIABLES
  \* ---- the mailbox (environment)
  mailbox,           \* sequence of messages; a message's id is its position
  \* ---- EmailMonitor
  start_time,        \* self.start_time
  processed_emails,  \* self.processed_emails (in-memory set of ids)
  processed_file,    \* contents of config.processed_emails_db, << >> when missing
  ppc,               \* poller position: "idle" (between cycles) or "scan"
  email_ids,         \* the ids the current (or last) cycle iterates over
  idx,               \* position of the for loop in email_ids
  new_assignments,   \* events handed to the callback by the current (or last) cycle
  last_cycle,        \* how the last cycle of this process ended
  repeat,            \* the current (or last) cycle follows a completed cycle over the same search result
  examined,          \* ids whose mail.fetch returned in the current (or last) cycle
  emitted,           \* per message id, the start times of the processes that emitted an event for it
  handed,            \* per call of the callback: the message id, and the processed set and the file at that moment
  evaluated,         \* the calls of _is_gitlab_assignment_email and _extract_gitlab_mr_url: message id, start time of the process, step
  \* ---- event queue (GitLabMRSummarizer.mr_queue)
  mr_queue,
  \* ---- configuration and queue consumer (process_queue)
  variant,           \* "mcp": main.py with MCPOrchestrator; "standalone": standalone_client.py
  allowed_states,    \* config.mr_states_to_process
  detected,          \* number of on_mr_detected calls made by the environment
  cpc,               \* consumer position: "wait" (loop top), "get" (suspended in mr_queue.get) or the stage the run is about to invoke
  getter_woken,      \* a put has scheduled the wake-up of the suspended mr_queue.get()
  mr_info,           \* the event of the run in progress, None when there is none
  calls,             \* the collaborator calls of the run in progress, with their answers
  summary,           \* the summary text of the run in progress
  runs,              \* the finished runs, in order
  notes,             \* the comments created on merge requests
  \* ---- JSONEmailStorage
  store_emails,      \* self.processed_emails of the instance
  store_file,        \* contents of the file at db_path, << >> when missing
  storage,           \* the storage the process holds: "none", "json", "redis", or "raised" when its construction or load raised
  db_access,         \* what the process may do at db_path: "ok", "unreadable" (open raises) or "no_search" (stat raises)
  store_op,          \* the last call on the JSONEmailStorage and how it ended
  use_redis,         \* config.use_redis
  created,           \* what create_email_storage was called with and what it returned, None before the call
  \* ---- GitLabMRSummarizer.start / stop and its two tasks
  config,            \* the settings Config.validate reads
  running,           \* self.running
  shutdown_event,    \* self.shutdown_event is set
  service,           \* position of start(): "created", "invalid", "waiting", "gathering", "stopped"
  sessions,          \* the orchestrator's client sessions are started
  email_task,        \* start_monitoring task: "none", "active", "cancelling", "cancelled"
  queue_task,        \* process_queue task: "none", "active", "cancelling", "cancelled", "finished"
  handlers,          \* loop.add_signal_handler succeeded for SIGTERM and SIGINT
  \* ---- _is_gitlab_assignment_email on one message text
  subject,           \* the decoded subject, a sequence of text pieces
  body,              \* the body text, a sequence of text pieces
  is_assignment,     \* the value returned, None before the call
  \* ---- _extract_gitlab_mr_url on one body text
  extracted,         \* None before the call, then Some(the Optional it returned)
  \* ---- GitLabClient.parse_mr_url on one string
  ref_url,           \* the string, a sequence of pieces
  parsed,            \* None before the call, then Some(the Optional it returned)
  \* ---- RedisEmailStorage and the Redis server
  redis_env,         \* "up", "down" (not reachable) or "no_package" (import redis fails)
  redis_members,     \* the members of the set at self.key in the server
  redis_clients,     \* per client process: how often it was started, and whether it holds an instance
  redis_added,       \* per id, the first add that returned: Some of client and start number
  redis_obs,         \* the last call on an instance and what it returned, None before the first
  \* ---- the summarization backends on one list of changes
  mr_changes,              \* the "changes" of the request: a sequence of files
  max_files_in_prompt,     \* config.max_files_in_prompt
  max_diff_lines_per_file, \* config.max_diff_lines_per_file
  prompt,                  \* None before the call, then Some of the backend and the prompt it built
  \* ---- the collaborators of one merge request, as both orchestrators meet them
  outcomes           \* None, or Some of the url and of what each collaborator does when it is called

pollerVars == <<mailbox, start_time, processed_emails, processed_file, ppc,
                email_ids, idx, new_assignments, last_cycle, repeat, examined,
                emitted, handed, evaluated>>

\* The poller's variables other than the processed set and its file.
cycleVars == <<mailbox, start_time, ppc, email_ids, idx, new_assignments,
              last_cycle, repeat, examined, emitted, handed, evaluated>>

consumerVars == <<variant, allowed_states, getter_woken, detected, cpc, mr_info, calls,
                  summary, runs, notes>>

storeVars == <<store_emails, store_file, storage, db_access, store_op, use_redis,
               created>>

serviceVars == <<config, running, shutdown_event, service, sessions,
                 email_task, queue_task, handlers>>

classifyVars == <<subject, body, is_assignment>>

\* The variables of the text and storage utilities that the poller, the
\* consumer and the service never touch.
redisVars == <<redis_env, redis_members, redis_clients, redis_added, redis_obs>>

promptVars == <<mr_changes, max_files_in_prompt, max_diff_lines_per_file, prompt>>

utilVars == <<extracted, ref_url, parsed, redisVars, promptVars, outcomes>>

vars == <<pollerVars, mr_queue, consumerVars, storeVars, serviceVars,
          classifyVars, utilVars>>

\* ----------------------------------------------------------------- helpers
None == << >>
Some(x) == << x >>

Range(s) == {s[i] : i \in DOMAIN s}

\* A slice that keeps the whole list.
LastNUncapped(s, n) == s

\* Python's s[-n:] on a list.
LastN(s, n) ==
  IF Len(s) <= n THEN s ELSE SubSeq(s, Len(s) - n + 1, Len(s))

\* list(a_set): some enumeration of the set without repetition.
RECURSIVE SetToList(_)
SetToList(S) ==
  IF S = {} THEN << >>
  ELSE LET x == CHOOSE y \in S : \A z \in S : y <= z
       IN  <<x>> \o SetToList(S \ {x})

\* set(a_list)
ListToSet(l) == Range(l)

\* ------------------------------------------------------------ the mailbox
\* What a message holds, as far as check_emails looks at it:
\*   date      : the parsed Date header, None when missing or unparseable
\*   marker    : subject + body contain an assignment indicator
\*   url       : the merge-request URL of the body, None when there is none
\*   decodable : fetching and decoding the message raises no exception
Urls == {"mr_url"}

MessagesAt(t) ==
  [date : {None, Some(t - 1), Some(t)}, marker : BOOLEAN,
   url : {None} \cup {Some(u) : u \in Urls}, decodable : {TRUE}]
  \cup
  {[date |-> None, marker |-> FALSE, url |-> None, decodable |-> FALSE]}

\* mail.search(None, '(FROM ... SINCE ...)'): the ids of the matching
\* messages in mailbox order. Every message of the model's mailbox matches
\* the sender and the (day-granular) SINCE criterion.
SearchIds == [i \in 1..Len(mailbox) |-> i]

\* ------------------------------------------------------------ EmailMonitor
\* A loader that ignores the file, as when the key it reads is absent.
LoadProcessedEmailsEmpty(file) == {}

\* _load_processed_emails: a missing file loads as the empty set.
LoadProcessedEmails(file) ==
  IF file = None THEN {} ELSE ListToSet(file[1].processed_ids)

\* A save that writes the ids the file held when the process started.
SaveProcessedEmailsStale(mem, t) ==
  Some([processed_ids |-> << >>, last_updated |-> t])

\* _save_processed_emails: the file is rewritten with the whole in-memory set.
SaveProcessedEmails(mem, t) ==
  Some([processed_ids |-> SetToList(mem), last_updated |-> t])

\* A skip test that never skips.
AlreadyProcessedNever(email_id, processed) == FALSE

\* "if email_id_str in self.processed_emails: continue"
AlreadyProcessed(email_id, processed) == email_id \in processed

\* self.processed_emails.add(email_id_str)
MarkProcessed(processed, email_id) == processed \cup {email_id}

\* _parse_email_date: the datetime of the Date header, or None.
ParseEmailDate(msg) == msg.date

\* A window test that lets every message through.
IsOldEmailNever(msg, start) == FALSE

\* A window test that also drops a message without a usable timestamp.
IsOldEmailUndated(msg, start) ==
  LET email_datetime == ParseEmailDate(msg)
  IN  email_datetime = None \/ email_datetime[1] < start

\* "if email_datetime: ... if email_datetime < self.start_time"
IsOldEmail(msg, start) ==
  LET email_datetime == ParseEmailDate(msg)
  IN  email_datetime # None /\ email_datetime[1] < start

\* _is_gitlab_assignment_email
IsGitlabAssignmentEmail(msg) == msg.marker

\* _extract_gitlab_mr_url
ExtractGitlabMrUrl(msg) == msg.url

\* A callback that puts the event at the front of the queue.
OnMrDetectedFront(queue, mr_url, email_subject, email_date) ==
  <<[url |-> mr_url, subject |-> email_subject, date |-> email_date]>> \o queue

\* GitLabMRSummarizer.on_mr_detected: the event is put on the queue.
OnMrDetected(queue, mr_url, email_subject, email_date) ==
  Append(queue, [url |-> mr_url, subject |-> email_subject, date |-> email_date])

\* A message arrives in the mailbox (the environment).
Arrive ==
  /\ Len(mailbox) < MaxMsgs
  /\ \E msg \in MessagesAt(start_time) : mailbox' = Append(mailbox, msg)
  /\ UNCHANGED <<start_time, processed_emails, processed_file, ppc, email_ids,
                 idx, new_assignments, last_cycle, repeat, examined, emitted, handed, evaluated,
                 mr_queue, consumerVars, storeVars, serviceVars, classifyVars, utilVars>>

\* check_emails, lines 153-169: connect, login, select, search.
PollConnect ==
  /\ ppc = "idle"
  /\ LET ids == LastN(SearchIds, ScanCap) IN
       /\ email_ids' = ids
       /\ repeat' = (last_cycle = "completed" /\ ids = email_ids)
  /\ ppc' = "scan"
  /\ idx' = 1
  /\ new_assignments' = 0
  /\ examined' = {}
  /\ last_cycle' = "running"
  /\ UNCHANGED <<mailbox, start_time, processed_emails, processed_file,
                 emitted, handed, evaluated, mr_queue, consumerVars, storeVars, serviceVars, classifyVars, utilVars>>

\* A poller in which only imaplib.IMAP4.error is caught.
AfterFailedCycleImapOnly(error) == IF error = "imap" THEN "idle" ELSE "crashed"

\* check_emails, lines 258-261, and start_monitoring, lines 270-276: an
\* imaplib.IMAP4.error and any other Exception are caught and logged, and
\* the loop goes to its sleep before the next cycle.
AfterFailedCycle(error) == "idle"

\* check_emails, lines 155-164 raise (the mailbox cannot be contacted); the
\* handlers of lines 258-261 log it and the cycle is over.
PollConnectFail ==
  /\ ppc = "idle"
  /\ \E error \in {"imap", "other"} : ppc' = AfterFailedCycle(error)
  /\ last_cycle' = "contact_failed"
  /\ examined' = {}
  /\ new_assignments' = 0
  /\ repeat' = FALSE
  /\ UNCHANGED <<mailbox, start_time, processed_emails, processed_file,
                 email_ids, idx, emitted, handed, evaluated, mr_queue, consumerVars, storeVars, serviceVars, classifyVars, utilVars>>

\* check_emails, lines 171-177: an id already in the processed set is skipped.
PollSkip ==
  /\ ppc = "scan"
  /\ idx <= Len(email_ids)
  /\ AlreadyProcessed(email_ids[idx], processed_emails)
  /\ idx' = idx + 1
  /\ UNCHANGED <<mailbox, start_time, processed_emails, processed_file, ppc,
                 email_ids, new_assignments, last_cycle, repeat, examined,
                 emitted, handed, evaluated, mr_queue, consumerVars, storeVars, serviceVars, classifyVars, utilVars>>

\* check_emails, line 180: mail.fetch raises; the cycle is aborted by the
\* handlers of lines 258-261 and the remaining ids are left as they are.
PollFetchFail ==
  /\ ppc = "scan"
  /\ idx <= Len(email_ids)
  /\ ~AlreadyProcessed(email_ids[idx], processed_emails)
  /\ \E error \in {"imap", "other"} : ppc' = AfterFailedCycle(error)
  /\ last_cycle' = "contact_failed"
  /\ UNCHANGED <<mailbox, start_time, processed_emails, processed_file,
                 email_ids, idx, new_assignments, repeat, examined, emitted, handed, evaluated,
                 mr_queue, consumerVars, storeVars, serviceVars, classifyVars, utilVars>>

\* A callback that is invoked before the id is added and saved.
StateAtCallbackEarly(before, after) == before

\* Lines 235-239: the callback is awaited after processed_emails.add and
\* _save_processed_emails have returned; it sees the set and the file as they
\* have left them.
StateAtCallback(before, after) == after

\* The calls of the two text functions made for a message of a process.
Evaluation(email_id, t, steps) == {<<email_id, t, step>> : step \in steps}

\* check_emails, lines 179-249: one message is fetched and evaluated.
PollExamine ==
  /\ ppc = "scan"
  /\ idx <= Len(email_ids)
  /\ ~AlreadyProcessed(email_ids[idx], processed_emails)
  /\ LET email_id == email_ids[idx]
         msg == mailbox[email_id]
         marked == MarkProcessed(processed_emails, email_id)
     IN
     /\ examined' = examined \cup {email_id}
     /\ IF ~msg.decodable
        THEN \* lines 181-185 raise: caught by line 260, the cycle is over
             /\ ppc' = AfterFailedCycle("other")
             /\ last_cycle' = "message_error"
             /\ UNCHANGED <<processed_emails, processed_file, idx,
                            new_assignments, emitted, handed, evaluated,
                            mr_queue>>
        ELSE IF IsOldEmail(msg, start_time)
        THEN \* lines 198-202
             /\ processed_emails' = marked
             /\ idx' = idx + 1
             /\ UNCHANGED <<processed_file, ppc, new_assignments, last_cycle,
                            emitted, handed, evaluated, mr_queue>>
        ELSE IF ~IsGitlabAssignmentEmail(msg)
        THEN \* lines 225 and 246-249
             /\ processed_emails' = marked
             /\ evaluated' = evaluated
                               \cup Evaluation(email_id, start_time, {"classify"})
             /\ idx' = idx + 1
             /\ UNCHANGED <<processed_file, ppc, new_assignments, last_cycle,
                            emitted, handed, mr_queue>>
        ELSE LET mr_url == ExtractGitlabMrUrl(msg)
                 saved == SaveProcessedEmails(marked, start_time)
             IN
             /\ evaluated' = evaluated
                               \cup Evaluation(email_id, start_time,
                                               {"classify", "extract"})
             /\ IF mr_url = None
                THEN \* lines 241-245
                     /\ processed_emails' = marked
                     /\ processed_file' = saved
                     /\ idx' = idx + 1
                     /\ UNCHANGED <<ppc, new_assignments, last_cycle, emitted,
                                    handed, mr_queue>>
                ELSE \* lines 230-240
                     /\ processed_emails' = marked
                     /\ processed_file' = saved
                     /\ LET seen == StateAtCallback(
                                      <<processed_emails, processed_file>>,
                                      <<marked, saved>>)
                        IN  handed' = Append(handed,
                                             [id |-> email_id,
                                              processed_emails |-> seen[1],
                                              processed_file |-> seen[2]])
                     /\ mr_queue' = OnMrDetected(mr_queue, mr_url[1], email_id, msg.date)
                     /\ emitted' = [emitted EXCEPT ![email_id] = Append(@, start_time)]
                     /\ new_assignments' = new_assignments + 1
                     /\ idx' = idx + 1
                     /\ UNCHANGED <<ppc, last_cycle>>
  /\ UNCHANGED <<mailbox, start_time, email_ids, repeat, consumerVars, storeVars, serviceVars, classifyVars, utilVars>>

\* check_emails, lines 251-256: the loop is over.
PollFinish ==
  /\ ppc = "scan"
  /\ idx > Len(email_ids)
  /\ processed_file' = IF new_assignments > 0
                        THEN SaveProcessedEmails(processed_emails, start_time)
                        ELSE processed_file
  /\ ppc' = "idle"
  /\ last_cycle' = "completed"
  /\ UNCHANGED <<mailbox, start_time, processed_emails, email_ids, idx,
                 new_assignments, repeat, examined, emitted, handed, evaluated, mr_queue, consumerVars, storeVars, serviceVars, classifyVars, utilVars>>

\* The process is stopped and started again: EmailMonitor.__init__ reloads
\* the processed set from the file and takes a new start time; the queue of
\* the old process is gone.
Restart ==
  /\ start_time < MaxEpoch
  /\ start_time' = start_time + 1
  /\ processed_emails' = LoadProcessedEmails(processed_file)
  /\ ppc' = "idle"
  /\ email_ids' = << >>
  /\ idx' = 1
  /\ new_assignments' = 0
  /\ last_cycle' = "none"
  /\ repeat' = FALSE
  /\ examined' = {}
  /\ mr_queue' = << >>
  /\ cpc' = "wait"
  /\ mr_info' = None
  /\ calls' = << >>
  /\ summary' = ""
  /\ UNCHANGED <<mailbox, processed_file, emitted, handed, evaluated, variant, allowed_states, getter_woken,
                 detected, runs, notes, storeVars, serviceVars, classifyVars, utilVars>>

PollerStart(messages) ==
  /\ mailbox = messages
  /\ start_time = 1
  /\ processed_file \in {None, SaveProcessedEmails({}, 0)}
  /\ processed_emails = LoadProcessedEmails(processed_file)
  /\ ppc = "idle"
  /\ email_ids = << >>
  /\ idx = 1
  /\ new_assignments = 0
  /\ last_cycle = "none"
  /\ repeat = FALSE
  /\ examined = {}
  /\ emitted = [i \in 1..MaxMsgs |-> << >>]
  /\ handed = << >>
  /\ evaluated = {}
  /\ mr_queue = << >>

\* -------------------------------------------------------- JSONEmailStorage
\* A storage loader that ignores the file.
StorageLoadEmpty(file) == {}

\* JSONEmailStorage.load: a missing file loads as the empty set.
StorageLoad(file) ==
  IF file = None THEN {} ELSE ListToSet(file[1].processed_ids)

\* JSONEmailStorage.save: the file is rewritten with the whole set.
StorageSave(mem, t) ==
  Some([processed_ids |-> SetToList(mem), last_updated |-> t])

\* JSONEmailStorage.add
StorageAdd(mem, email_id) == mem \cup {email_id}

\* JSONEmailStorage.contains
StorageContains(mem, email_id) == email_id \in mem

\* self.db_path.exists(): Path.exists() lets the OSError of stat() through
\* unless it says that the path is missing, so it raises where the
\* directory may not be searched.
PathExists(access, file) ==
  IF access = "no_search" THEN "raise"
  ELSE IF file = None THEN "false" ELSE "true"

\* load() as a whole: None when it raises, else the set it leaves in
\* self.processed_emails. open() and json.load() are inside "try", the
\* call of exists() is not.
JsonLoad(access, file) ==
  CASE PathExists(access, file) = "raise" -> None
    [] PathExists(access, file) = "false" -> Some({})
    [] OTHER -> IF access = "unreadable" THEN Some({})
                ELSE Some(StorageLoad(file))

\* save() as a whole: the file afterwards; an exception of open() or
\* json.dump() is logged and the file stays as it is.
JsonSave(access, file, mem, t) ==
  IF access = "ok" THEN StorageSave(mem, t) ELSE file

StoreAdd ==
  /\ storage = "json"
  /\ \E email_id \in 1..MaxMsgs : store_emails' = StorageAdd(store_emails, email_id)
  /\ store_op' = "add"
  /\ UNCHANGED <<store_file, storage, db_access, use_redis, created>>
  /\ UNCHANGED <<pollerVars, mr_queue, consumerVars, serviceVars, classifyVars, utilVars>>

StoreSave ==
  /\ storage = "json"
  /\ store_file' = JsonSave(db_access, store_file, store_emails, start_time)
  /\ store_op' = IF db_access = "ok" THEN "save" ELSE "save_failed"
  /\ UNCHANGED <<store_emails, storage, db_access, use_redis, created>>
  /\ UNCHANGED <<pollerVars, mr_queue, consumerVars, serviceVars, classifyVars, utilVars>>

\* load() on the instance, or a new JSONEmailStorage over the same file.
StoreLoad ==
  /\ storage \in {"json", "raised"}
  /\ LET loaded == JsonLoad(db_access, store_file) IN
     IF loaded = None
     THEN /\ storage' = "raised"
          /\ store_op' = "load_raised"
          /\ UNCHANGED store_emails
     ELSE /\ storage' = "json"
          /\ store_op' = "load"
          /\ store_emails' = loaded[1]
  /\ UNCHANGED <<store_file, db_access, use_redis, created>>
  /\ UNCHANGED <<pollerVars, mr_queue, consumerVars, serviceVars, classifyVars, utilVars>>

\* A JSONEmailStorage over a missing file that the process may write.
StoreInit ==
  /\ store_file = None
  /\ store_emails = StorageLoad(store_file)
  /\ storage = "json"
  /\ db_access = "ok"
  /\ store_op = "none"
  /\ use_redis = FALSE
  /\ created = None

\* -------------------------------------------------------- RedisEmailStorage
Clients == 1..MaxClients

\* An add that keeps the id in the instance until save is called.
RedisSaddBuffered(members, email_id) == members

\* self.redis.sadd(self.key, email_id): the server adds the member.
RedisSadd(members, email_id) == members \cup {email_id}

\* self.redis.sismember(self.key, email_id)
RedisSismember(members, email_id) == email_id \in members

\* RedisEmailStorage.__init__: import redis, from_url and ping; every failure
\* is raised to the caller.
RedisInit(env) == IF env = "up" THEN "connected" ELSE "raise"

\* What a call on an instance returned.
Obs(op, c, email_id, result) ==
  Some([op |-> op, by |-> c, starts |-> redis_clients[c].starts,
        id |-> email_id, result |-> result])

\* A process constructs its RedisEmailStorage.
RedisConstruct(c) ==
  /\ ~redis_clients[c].live
  /\ redis_clients[c].starts < MaxStarts
  /\ RedisInit(redis_env) = "connected"
  /\ redis_clients' = [redis_clients EXCEPT
                         ![c] = [starts |-> @.starts + 1, live |-> TRUE]]
  /\ UNCHANGED <<redis_env, redis_members, redis_added, redis_obs>>

\* The process ends; its instance is gone.
RedisExit(c) ==
  /\ redis_clients[c].live
  /\ redis_clients' = [redis_clients EXCEPT ![c].live = FALSE]
  /\ UNCHANGED <<redis_env, redis_members, redis_added, redis_obs>>

\* add: sadd reaches the server and returns, or raises.
RedisAdd(c, email_id) ==
  /\ redis_clients[c].live
  /\ IF redis_env = "up"
     THEN /\ redis_members' = RedisSadd(redis_members, email_id)
          /\ redis_added' =
               IF redis_added[email_id] # None THEN redis_added
               ELSE [redis_added EXCEPT
                       ![email_id] = Some([by |-> c,
                                           starts |-> redis_clients[c].starts])]
          /\ redis_obs' = Obs("add", c, email_id, "returned")
     ELSE /\ redis_obs' = Obs("add", c, email_id, "raised")
          /\ UNCHANGED <<redis_members, redis_added>>
  /\ UNCHANGED <<redis_env, redis_clients>>

\* contains: the answer of sismember, or the exception.
RedisContains(c, email_id) ==
  /\ redis_clients[c].live
  /\ redis_obs' =
       IF redis_env = "up"
       THEN Obs("contains", c, email_id,
                IF RedisSismember(redis_members, email_id) THEN "true" ELSE "false")
       ELSE Obs("contains", c, email_id, "raised")
  /\ UNCHANGED <<redis_env, redis_members, redis_clients, redis_added>>

\* save and load: "pass".
RedisSave(c) ==
  /\ redis_clients[c].live
  /\ redis_obs' = Obs("save", c, 0, "returned")
  /\ UNCHANGED <<redis_env, redis_members, redis_clients, redis_added>>

RedisLoad(c) ==
  /\ redis_clients[c].live
  /\ redis_obs' = Obs("load", c, 0, "returned")
  /\ UNCHANGED <<redis_env, redis_members, redis_clients, redis_added>>

\* The server becomes unreachable, or reachable again (the environment).
RedisOutage ==
  /\ redis_env \in {"up", "down"}
  /\ redis_env' = IF redis_env = "up" THEN "down" ELSE "up"
  /\ UNCHANGED <<redis_members, redis_clients, redis_added, redis_obs>>

RedisRest ==
  UNCHANGED <<pollerVars, mr_queue, consumerVars, storeVars, serviceVars,
              classifyVars, extracted, ref_url, parsed, promptVars, outcomes>>

\* ----------------------------------------------------- create_email_storage
\* create_email_storage: the kind of storage it returns, "raised" when it
\* raises. Every exception of RedisEmailStorage(...) is caught and the
\* file-backed storage is constructed instead, outside the "try".
CreateEmailStorageKind(use, env, access, file) ==
  IF use /\ RedisInit(env) = "connected" THEN "redis"
  ELSE IF JsonLoad(access, file) = None THEN "raised" ELSE "json"

\* The process calls create_email_storage(config).
CreateEmailStorage ==
  /\ storage = "none"
  /\ storage' = CreateEmailStorageKind(use_redis, redis_env, db_access, store_file)
  /\ store_emails' = IF storage' = "json"
                     THEN JsonLoad(db_access, store_file)[1] ELSE store_emails
  /\ store_op' = CASE storage' = "json" -> "load"
                   [] storage' = "raised" -> "load_raised"
                   [] OTHER -> "none"
  /\ created' = Some([use_redis |-> use_redis, redis_env |-> redis_env,
                      db_access |-> db_access, result |-> storage'])
  /\ UNCHANGED <<store_file, db_access, use_redis>>
  /\ UNCHANGED <<pollerVars, mr_queue, consumerVars, serviceVars, classifyVars, utilVars>>

\* The permissions at db_path change (the environment).
DbAccessChange ==
  /\ \E access \in {"ok", "unreadable", "no_search"} \ {db_access} :
       db_access' = access
  /\ store_op' = "none"
  /\ UNCHANGED <<store_emails, store_file, storage, use_redis, created>>
  /\ UNCHANGED <<pollerVars, mr_queue, consumerVars, serviceVars, classifyVars, utilVars>>

\* ------------------------------------------------- configuration and service
\* The settings Config.validate reads, with empty and non-empty values.
Configs ==
  [gitlab_token : {"", "glpat-token"},
   gmail_email : {"", "me@example.com"},
   gmail_app_password : {"", "app-password"},
   check_interval : {-1, 0, 1}]

\* A validation that accepts a check interval of 0.
ValidateNonNegative(cfg) ==
  (IF cfg.gitlab_token = "" THEN <<"GITLAB_TOKEN is required">> ELSE << >>)
  \o (IF cfg.gmail_email = "" THEN <<"GMAIL_EMAIL is required">> ELSE << >>)
  \o (IF cfg.gmail_app_password = "" THEN <<"GMAIL_APP_PASSWORD is required">> ELSE << >>)
  \o (IF cfg.check_interval < 0 THEN <<"CHECK_INTERVAL must be positive">> ELSE << >>)

\* Config.validate: the list of errors, in the order of the checks.
Validate(cfg) ==
  (IF cfg.gitlab_token = "" THEN <<"GITLAB_TOKEN is required">> ELSE << >>)
  \o (IF cfg.gmail_email = "" THEN <<"GMAIL_EMAIL is required">> ELSE << >>)
  \o (IF cfg.gmail_app_password = "" THEN <<"GMAIL_APP_PASSWORD is required">> ELSE << >>)
  \o (IF cfg.check_interval <= 0 THEN <<"CHECK_INTERVAL must be positive">> ELSE << >>)

\* GitLabMRSummarizer.__init__: nothing is started yet.
ServiceCreated ==
  /\ config \in Configs
  /\ running = FALSE
  /\ shutdown_event = FALSE
  /\ service = "created"
  /\ sessions = FALSE
  /\ email_task = "none"
  /\ queue_task = "none"
  /\ handlers = FALSE

\* The service after start() has created its two tasks and waits for the
\* shutdown event.
ServiceStarted ==
  /\ config \in {cfg \in Configs : Validate(cfg) = << >>}
  /\ running = TRUE
  /\ shutdown_event = FALSE
  /\ service = "waiting"
  /\ sessions = TRUE
  /\ email_task = "active"
  /\ queue_task = "active"
  /\ handlers = TRUE

\* No message text is being classified.
ClassifyIdle ==
  /\ subject = << >>
  /\ body = << >>
  /\ is_assignment = None

\* No utility call has been made.
RedisIdle ==
  /\ redis_env = "up"
  /\ redis_members = {}
  /\ redis_clients = [c \in 1..MaxClients |-> [starts |-> 0, live |-> FALSE]]
  /\ redis_added = [id \in 1..MaxMsgs |-> None]
  /\ redis_obs = None

\* No summarization request is being served; the ceilings are the defaults
\* of Config.from_env, which no list of the model reaches.
PromptIdle ==
  /\ mr_changes = << >>
  /\ max_files_in_prompt = NoLimit
  /\ max_diff_lines_per_file = NoLimit
  /\ prompt = None

UtilIdle ==
  /\ extracted = None
  /\ ref_url = << >>
  /\ parsed = None
  /\ RedisIdle
  /\ PromptIdle
  /\ outcomes = None

PollerInit == PollerStart(<< >>)

ConsumerInit ==
  /\ detected = 0
  /\ cpc = "wait"
  /\ getter_woken = FALSE
  /\ mr_info = None
  /\ calls = << >>
  /\ summary = ""
  /\ runs = << >>
  /\ notes = << >>

\* The poller of main.py with the default configuration.
Init ==
  /\ PollerInit
  /\ ConsumerInit
  /\ StoreInit
  /\ ServiceStarted
  /\ ClassifyIdle
  /\ UtilIdle
  /\ variant = "mcp"
  /\ allowed_states = {"opened"}

Next ==
  \/ Arrive
  \/ PollConnect
  \/ PollConnectFail
  \/ PollSkip
  \/ PollFetchFail
  \/ PollExamine
  \/ PollFinish
  \/ Restart

Spec == Init /\ [][Next]_vars

\* The shared backend used by several processes.
RedisSpecInit ==
  /\ PollerInit
  /\ processed_file = None
  /\ ConsumerInit
  /\ StoreInit
  /\ ServiceStarted
  /\ ClassifyIdle
  /\ UtilIdle
  /\ variant = "mcp"
  /\ allowed_states = {"opened"}

RedisNext ==
  \/ \E c \in Clients : RedisConstruct(c) /\ RedisRest
  \/ \E c \in Clients : RedisExit(c) /\ RedisRest
  \/ \E c \in Clients, email_id \in 1..MaxMsgs : RedisAdd(c, email_id) /\ RedisRest
  \/ \E c \in Clients, email_id \in 1..MaxMsgs : RedisContains(c, email_id) /\ RedisRest
  \/ \E c \in Clients : RedisSave(c) /\ RedisRest
  \/ \E c \in Clients : RedisLoad(c) /\ RedisRest
  \/ RedisOutage /\ RedisRest

RedisSpec == RedisSpecInit /\ [][RedisNext]_vars

\* The storage of a process from create_email_storage on, over a file that
\* is missing or was saved by an earlier process.
StorageInit ==
  /\ PollerInit
  /\ processed_file = None
  /\ ConsumerInit
  /\ ServiceStarted
  /\ ClassifyIdle
  /\ variant = "mcp"
  /\ allowed_states = {"opened"}
  /\ extracted = None
  /\ ref_url = << >>
  /\ parsed = None
  /\ PromptIdle
  /\ outcomes = None
  /\ redis_env \in {"up", "down", "no_package"}
  /\ redis_members = {}
  /\ redis_clients = [c \in 1..MaxClients |-> [starts |-> 0, live |-> FALSE]]
  /\ redis_added = [id \in 1..MaxMsgs |-> None]
  /\ redis_obs = None
  /\ store_file \in {None} \cup {StorageSave(ids, 0) : ids \in SUBSET (1..MaxMsgs)}
  /\ store_emails = {}
  /\ storage = "none"
  /\ db_access \in {"ok", "unreadable", "no_search"}
  /\ store_op = "none"
  /\ use_redis \in BOOLEAN
  /\ created = None

StorageNext ==
  \/ CreateEmailStorage
  \/ StoreAdd
  \/ StoreSave
  \/ StoreLoad
  \/ DbAccessChange

StorageSpec == StorageInit /\ [][StorageNext]_vars

\* --------------------------------------------------------- reference parsing
\* A string is a sequence of pieces: a scheme with a host, a bare host, a
\* path segment with its leading slash, the merge-request segment, two
\* digits and a minus sign.
RefPieces == {"https://h", "h", "/g", "/-/merge_requests/", "2", "4", "-"}

RefUrls(n) == UNION {[1..k -> RefPieces] : k \in 0..n}

\* The characters of a piece, as far as split and int tell them apart.
Units(piece) ==
  CASE piece = "https://h" -> <<"https:", "/", "/", "h">>
    [] piece = "https://" -> <<"https:", "/", "/">>
    [] piece = "http://" -> <<"http:", "/", "/">>
    [] piece = "/g" -> <<"/", "g">>
    [] piece = "/-/merge_requests/" -> <<"/", "-", "/", "merge_requests", "/">>
    [] OTHER -> <<piece>>

\* The string that a sequence of pieces spells.
RECURSIVE Spell(_)
Spell(pieces) ==
  IF pieces = << >> THEN << >> ELSE Units(Head(pieces)) \o Spell(Tail(pieces))

\* str.split(sep, maxsplit): the parts between the occurrences of sep, from
\* the left, at most maxsplit cuts.
RECURSIVE SplitMax(_, _, _)
SplitMax(str, sep, maxsplit) ==
  LET at == {i \in 1..(Len(str) - Len(sep) + 1) :
               SubSeq(str, i, i + Len(sep) - 1) = sep}
  IN  IF maxsplit = 0 \/ at = {} THEN <<str>>
      ELSE LET i == CHOOSE a \in at : \A b \in at : a <= b
           IN  <<SubSeq(str, 1, i - 1)>>
               \o SplitMax(SubSeq(str, i + Len(sep), Len(str)), sep, maxsplit - 1)

\* str.split(sep)
Split(str, sep) == SplitMax(str, sep, Len(str))

DigitValue(c) == IF c = "2" THEN 2 ELSE 4

RECURSIVE Decimal(_)
Decimal(digits) ==
  IF digits = << >> THEN 0
  ELSE 10 * Decimal(SubSeq(digits, 1, Len(digits) - 1))
       + DigitValue(digits[Len(digits)])

\* int(str): None when it raises ValueError; a sign may precede the digits.
IntOf(str) ==
  LET negative == str # << >> /\ str[1] = "-"
      digits == IF negative THEN Tail(str) ELSE str
  IN  IF digits = << >> \/ \E i \in DOMAIN digits : digits[i] \notin {"2", "4"}
      THEN None
      ELSE Some(IF negative THEN 0 - Decimal(digits) ELSE Decimal(digits))

\* parts[1].split("/")[0].split("?")[0].split("#")[0]
IidText(rest) ==
  Split(Split(Split(rest, <<"/">>)[1], <<"?">>)[1], <<"#">>)[1]

\* GitLabClient.parse_mr_url on the string: (project_id, mr_iid), or None.
ParseMrUrlText(str) ==
  LET parts == Split(str, <<"/", "-", "/", "merge_requests", "/">>) IN
  IF Len(parts) # 2 THEN None
  ELSE LET project_part == SplitMax(parts[1], <<"/">>, 3) IN
       IF Len(project_part) < 4 THEN None
       ELSE LET mr_iid == IntOf(IidText(parts[2])) IN
            IF mr_iid = None THEN None
            ELSE Some([project_id |-> project_part[4], mr_iid |-> mr_iid[1]])

\* parse_mr_url is called on the string.
Parse ==
  /\ parsed = None
  /\ parsed' = Some(ParseMrUrlText(Spell(ref_url)))
  /\ UNCHANGED <<extracted, ref_url, redisVars, promptVars, outcomes>>
  /\ UNCHANGED <<pollerVars, mr_queue, consumerVars, storeVars, serviceVars,
                 classifyVars>>

ParseInit ==
  /\ PollerInit
  /\ processed_file = None
  /\ ConsumerInit
  /\ StoreInit
  /\ ServiceStarted
  /\ ClassifyIdle
  /\ variant = "mcp"
  /\ allowed_states = {"opened"}
  /\ extracted = None
  /\ ref_url \in RefUrls(MaxRefUrl)
  /\ parsed = None
  /\ RedisIdle
  /\ PromptIdle
  /\ outcomes = None

ParseNext == Parse

ParseSpec == ParseInit /\ [][ParseNext]_vars

\* ------------------------------------------------ orchestrator and consumer
\* Number of events the environment hands to on_mr_detected.
MaxEvents == 2

\* The strings an event may carry as its url.
EventUrls == Urls \cup {"not_an_mr_url"}

\* The states a merge request is reported in.
MrStates == {"opened", "OPENED", "merged"}

\* str.lower() on the states of the model.
Lower(s) == IF s = "OPENED" THEN "opened" ELSE s

\* The strings that the urls of the events stand for.
UrlText(url) ==
  IF url \in Urls
  THEN <<"https://h", "/g", "/g", "/-/merge_requests/", "2", "4">>
  ELSE <<"https://h", "/g">>

\* GitLabClient.parse_mr_url: (project_id, mr_iid), or None.
ParseMrUrl(url) == ParseMrUrlText(Spell(UrlText(url)))

\* How a request to the Ollama backend ends.
OllamaOutcomes == {"ok", "status_error", "timeout", "unreachable"}

\* LocalLLMMCPServer._call_ollama: the text it returns; every failure is
\* caught and returned as a text that starts with "Error:".
CallOllama(backend) ==
  CASE backend = "ok" -> "summary"
    [] backend = "status_error" -> "Error: Ollama API returned status 500"
    [] backend = "timeout" -> "Error: Request to Ollama timed out"
    [] OTHER -> "Error: Cannot connect to host"

\* llm_rest_server.call_ollama: the text, or None when it raises.
RestCallOllama(backend) ==
  IF backend = "ok" THEN Some("summary") ELSE None

\* The text of a tool's error payload (call_tool's except branch).
ErrorPayload == "{\"error\": \"...\"}"

IsErrorText(text) ==
  text \in {ErrorPayload} \cup {CallOllama(b) : b \in OllamaOutcomes \ {"ok"}}

\* An answer of a collaborator as the orchestrator receives it:
\*   kind "raise"     : the call raises (transport failure)
\*        "empty"     : no result or no content (MCP)
\*        "nosuccess" : the REST response has no true "success" (HTTP 500)
\*        "error"     : the payload holds an "error" key
\*        "ok"        : a payload, with the state or the summary text as data
Answer(kind, data, backend) == [kind |-> kind, data |-> data, backend |-> backend]

\* call_tool of the LLM MCP server for summarize_code_changes: the text of
\* _call_ollama, or the error payload when _summarize_code_changes raises.
McpSummarizeAnswers ==
  {Answer("ok", CallOllama(b), b) : b \in OllamaOutcomes}
  \cup {Answer("error", ErrorPayload, "tool_exception")}

\* /api/summarize of the LLM REST server: HTTP 500 when call_ollama raises.
RestSummarizeAnswers ==
  {IF RestCallOllama(b) = None THEN Answer("nosuccess", "", b)
   ELSE Answer("ok", RestCallOllama(b)[1], b) : b \in OllamaOutcomes}

\* The parse_mr_url tool of the GitLab MCP server, and the local call of
\* StandaloneOrchestrator.
ParseAnswer(url) ==
  IF ParseMrUrl(url) = None THEN Answer("error", "", "") ELSE Answer("ok", "", "")

StageAnswers(v, stage, url) ==
  LET transport == IF v = "mcp"
                   THEN {Answer("raise", "", ""), Answer("empty", "", "")}
                   ELSE {Answer("raise", "", ""), Answer("nosuccess", "", "")}
  IN
  CASE stage = "parse" ->
         IF v = "mcp" THEN transport \cup {ParseAnswer(url)} ELSE {ParseAnswer(url)}
    [] stage = "metadata" ->
         transport \cup {Answer("error", "", "")}
                   \cup {Answer("ok", st, "") : st \in MrStates}
    [] stage = "summarize" ->
         IF v = "mcp" THEN transport \cup McpSummarizeAnswers
         ELSE {Answer("raise", "", "")} \cup RestSummarizeAnswers
    [] OTHER ->
         transport \cup {Answer("error", "", ""), Answer("ok", "", "")}

\* MCPOrchestrator.process_merge_request: the answers on which a stage
\* returns False. The summary is taken as it is: it is not parsed and not
\* searched for an "error" key.
McpAborts(stage, ans) ==
  \/ ans.kind \in {"raise", "empty"}
  \/ stage # "summarize" /\ ans.kind = "error"

\* StandaloneOrchestrator.process_merge_request.
StandaloneAborts(stage, ans) ==
  \/ ans.kind \in {"raise", "nosuccess"}
  \/ stage # "summarize" /\ ans.kind = "error"

\* A run that stops on transport failures only and takes an error payload
\* for a result.
AbortsOnTransportOnly(v, stage, ans) == ans.kind \in {"raise", "empty", "nosuccess"}

Aborts(v, stage, ans) ==
  IF v = "mcp" THEN McpAborts(stage, ans) ELSE StandaloneAborts(stage, ans)

\* A state gate that lets every state through.
StateAllowedAlways(state, allowed) == TRUE

\* "mr_state = mr_data.get('state', '').lower(); if mr_state not in allowed_states"
StateAllowed(state, allowed) == Lower(state) \in allowed

\* process_queue: what the consumer logs for the value the run returned.
ConsumerReport(success) == IF success THEN "success" ELSE "failed"

\* A get that leaves the event in the queue.
DequeuePeek(queue) == queue

\* mr_queue.get(): the event is removed from the queue.
Dequeue(queue) == Tail(queue)

\* Queue.put wakes the getter that is suspended in mr_queue.get(). The event
\* loop runs its callbacks in the order in which they were scheduled: a
\* wake-up scheduled after signal_handler has set the shutdown event runs
\* after start() has resumed and cancelled the task.
WakeGetter(woken, pc, shutdown) == woken \/ (pc = "get" /\ ~shutdown)

\* The environment hands an event to on_mr_detected.
Detect ==
  /\ email_task = "active"
  /\ detected < MaxEvents
  /\ detected' = detected + 1
  /\ \E url \in EventUrls :
       mr_queue' = OnMrDetected(mr_queue, url, detected + 1, None)
  /\ getter_woken' = WakeGetter(getter_woken, cpc, shutdown_event)
  /\ UNCHANGED <<pollerVars, storeVars, serviceVars, classifyVars, utilVars, variant, allowed_states, cpc, mr_info, calls,
                 summary, runs, notes>>

\* A loop that takes the next event while a run is still in progress.
ConsumerIdleAlways(pc) == TRUE

\* "success = await self.orchestrator.process_merge_request(...)": the loop
\* is at its top only when no run is in progress.
ConsumerIdle(pc) == pc = "wait"

\* process_queue: "while self.running" holds, the queue holds an event,
\* wait_for(mr_queue.get()) returns it at once and the run starts.
ConsumerGet ==
  /\ queue_task = "active"
  /\ ConsumerIdle(cpc)
  /\ running
  /\ mr_queue # << >>
  /\ mr_info' = Some(Head(mr_queue))
  /\ mr_queue' = Dequeue(mr_queue)
  /\ cpc' = "parse"
  /\ calls' = << >>
  /\ summary' = ""
  /\ UNCHANGED <<pollerVars, storeVars, serviceVars, classifyVars, utilVars, variant, allowed_states, getter_woken, detected, runs, notes>>

\* A consumer that forgets the processed set when a run has failed, so that
\* the messages are looked at again.
DedupeAfterRunRetry(dedupe, success) == IF success THEN dedupe ELSE <<{}, dedupe[2]>>

\* process_merge_request and process_queue: neither holds the EmailMonitor, its
\* processed set or the path of its file; whatever the run returns, the pair
\* of the set and the file is what it was.
DedupeAfterRun(dedupe, success) == dedupe

\* The run returns; process_queue logs the result and calls task_done.
FinishRun(c, success, skipped) ==
  /\ LET dedupe == DedupeAfterRun(<<processed_emails, processed_file>>, success) IN
       /\ processed_emails' = dedupe[1]
       /\ processed_file' = dedupe[2]
  /\ runs' = Append(runs, [event |-> mr_info[1], calls |-> c,
                           success |-> success, skipped |-> skipped,
                           report |-> ConsumerReport(success)])
  /\ cpc' = "wait"
  /\ mr_info' = None
  /\ calls' = << >>
  /\ summary' = ""

\* Step 1: parse the url.
StageParse ==
  /\ queue_task = "active"
  /\ cpc = "parse"
  /\ \E ans \in StageAnswers(variant, "parse", mr_info[1].url) :
       LET c == Append(calls, [stage |-> "parse", ans |-> ans]) IN
       IF Aborts(variant, "parse", ans)
       THEN FinishRun(c, FALSE, FALSE)
       ELSE /\ calls' = c
            /\ cpc' = "metadata"
            /\ UNCHANGED <<mr_info, summary, runs, processed_emails, processed_file>>
  /\ UNCHANGED <<cycleVars, storeVars, serviceVars, classifyVars, utilVars, mr_queue, variant, allowed_states, getter_woken, detected, notes>>

\* Step 2 and the state check that follows it without a further call.
StageMetadata ==
  /\ queue_task = "active"
  /\ cpc = "metadata"
  /\ \E ans \in StageAnswers(variant, "metadata", mr_info[1].url) :
       LET c == Append(calls, [stage |-> "metadata", ans |-> ans]) IN
       IF Aborts(variant, "metadata", ans)
       THEN FinishRun(c, FALSE, FALSE)
       ELSE IF ~StateAllowed(ans.data, allowed_states)
       THEN FinishRun(c, FALSE, TRUE)
       ELSE /\ calls' = c
            /\ cpc' = "changes"
            /\ UNCHANGED <<mr_info, summary, runs, processed_emails, processed_file>>
  /\ UNCHANGED <<cycleVars, storeVars, serviceVars, classifyVars, utilVars, mr_queue, variant, allowed_states, getter_woken, detected, notes>>

\* Step 3: fetch the changes.
StageChanges ==
  /\ queue_task = "active"
  /\ cpc = "changes"
  /\ \E ans \in StageAnswers(variant, "changes", mr_info[1].url) :
       LET c == Append(calls, [stage |-> "changes", ans |-> ans]) IN
       IF Aborts(variant, "changes", ans)
       THEN FinishRun(c, FALSE, FALSE)
       ELSE /\ calls' = c
            /\ cpc' = "summarize"
            /\ UNCHANGED <<mr_info, summary, runs, processed_emails, processed_file>>
  /\ UNCHANGED <<cycleVars, storeVars, serviceVars, classifyVars, utilVars, mr_queue, variant, allowed_states, getter_woken, detected, notes>>

\* Step 4: generate the summary.
StageSummarize ==
  /\ queue_task = "active"
  /\ cpc = "summarize"
  /\ \E ans \in StageAnswers(variant, "summarize", mr_info[1].url) :
       LET c == Append(calls, [stage |-> "summarize", ans |-> ans]) IN
       IF Aborts(variant, "summarize", ans)
       THEN FinishRun(c, FALSE, FALSE)
       ELSE /\ calls' = c
            /\ summary' = ans.data
            /\ cpc' = "post"
            /\ UNCHANGED <<mr_info, runs, processed_emails, processed_file>>
  /\ UNCHANGED <<cycleVars, storeVars, serviceVars, classifyVars, utilVars, mr_queue, variant, allowed_states, getter_woken, detected, notes>>

\* Step 5: post the comment that embeds the summary.
StagePost ==
  /\ queue_task = "active"
  /\ cpc = "post"
  /\ \E ans \in StageAnswers(variant, "post", mr_info[1].url) :
       LET c == Append(calls, [stage |-> "post", ans |-> ans]) IN
       IF Aborts(variant, "post", ans)
       THEN /\ FinishRun(c, FALSE, FALSE)
            /\ UNCHANGED notes
       ELSE /\ FinishRun(c, TRUE, FALSE)
            /\ notes' = Append(notes, [event |-> mr_info[1], body |-> summary])
  /\ UNCHANGED <<cycleVars, storeVars, serviceVars, classifyVars, utilVars, mr_queue, variant, allowed_states, getter_woken, detected>>

\* The queue consumer and the orchestrator of either service, with the
\* events supplied by the environment.
PipeInit ==
  /\ PollerInit
  /\ ConsumerInit
  /\ StoreInit
  /\ ServiceStarted
  /\ ClassifyIdle
  /\ UtilIdle
  /\ variant \in {"mcp", "standalone"}
  /\ allowed_states \in {{"opened"}, {"opened", "merged"}}

PipeNext ==
  \/ Detect
  \/ ConsumerGet
  \/ StageParse
  \/ StageMetadata
  \/ StageChanges
  \/ StageSummarize
  \/ StagePost

PipeSpec == PipeInit /\ [][PipeNext]_vars

\* The two tasks of main.py side by side: the poller's cycles put the events
\* on the queue and the consumer runs the orchestrator on them.
TasksNext ==
  \/ Next
  \/ ConsumerGet
  \/ StageParse
  \/ StageMetadata
  \/ StageChanges
  \/ StageSummarize
  \/ StagePost

TasksSpec == Init /\ [][TasksNext]_vars

\* ------------------------------------------------ start, shutdown and tasks
\* start(): loop.add_signal_handler registers signal_handler for both
\* signals, or raises (a loop without signal support, a thread other than
\* the main one); "except Exception" logs it and start() goes on without.
AddSignalHandlers == BOOLEAN

\* start(): Config.validate returns errors; they are logged and start()
\* returns before anything is started.
StartInvalid ==
  /\ service = "created"
  /\ handlers' \in AddSignalHandlers
  /\ Validate(config) # << >>
  /\ service' = "invalid"
  /\ UNCHANGED <<config, running, shutdown_event, sessions, email_task, queue_task>>
  /\ UNCHANGED <<pollerVars, mr_queue, consumerVars, storeVars, classifyVars, utilVars>>

\* start(): the configuration is valid, the orchestrator's sessions are
\* started, both tasks are created and start() waits for the shutdown event.
StartTasks ==
  /\ service = "created"
  /\ handlers' \in AddSignalHandlers
  /\ Validate(config) = << >>
  /\ running' = TRUE
  /\ sessions' = TRUE
  /\ email_task' = "active"
  /\ queue_task' = "active"
  /\ service' = "waiting"
  /\ UNCHANGED <<config, shutdown_event>>
  /\ UNCHANGED <<pollerVars, mr_queue, consumerVars, storeVars, classifyVars, utilVars>>

\* start(): orchestrator.start() raises; "except Exception", then stop().
StartSessionsFail ==
  /\ service = "created"
  /\ handlers' \in AddSignalHandlers
  /\ Validate(config) = << >>
  /\ service' = "stopped"
  /\ UNCHANGED <<config, running, shutdown_event, sessions, email_task, queue_task>>
  /\ UNCHANGED <<pollerVars, mr_queue, consumerVars, storeVars, classifyVars, utilVars>>

\* signal_handler, run by the event loop between two steps of the tasks; the
\* loop calls it only if it was registered.
SignalHandler ==
  /\ service = "waiting"
  /\ handlers
  /\ ~shutdown_event
  /\ running' = FALSE
  /\ shutdown_event' = TRUE
  /\ UNCHANGED <<handlers, config, service, sessions, email_task, queue_task>>
  /\ UNCHANGED <<pollerVars, mr_queue, consumerVars, storeVars, classifyVars, utilVars>>

\* task.cancel() on a task that is not done.
RequestCancel(task) == IF task = "active" THEN "cancelling" ELSE task

\* start() resumes from shutdown_event.wait() and cancels the tasks.
CancelTasks ==
  /\ service = "waiting"
  /\ shutdown_event
  /\ email_task' = RequestCancel(email_task)
  /\ queue_task' = RequestCancel(queue_task)
  /\ service' = "gathering"
  /\ UNCHANGED <<handlers, config, running, shutdown_event, sessions>>
  /\ UNCHANGED <<pollerVars, mr_queue, consumerVars, storeVars, classifyVars, utilVars>>

\* A loop that catches the cancellation and goes on iterating.
DeliverCancelSwallowed(task) == IF task = "cancelling" THEN "active" ELSE task

\* CancelledError is raised at the await the task is suspended in;
\* "except asyncio.CancelledError: ... raise" lets it end the task.
DeliverCancel(task) == IF task = "cancelling" THEN "cancelled" ELSE task

\* start_monitoring is cancelled in asyncio.sleep (check_emails itself never
\* suspends: its mailbox calls block and the put on the queue returns at once).
PollerCancelled ==
  /\ email_task = "cancelling"
  /\ email_task' = DeliverCancel(email_task)
  /\ UNCHANGED <<handlers, config, running, shutdown_event, service, sessions, queue_task>>
  /\ UNCHANGED <<pollerVars, mr_queue, consumerVars, storeVars, classifyVars, utilVars>>

\* process_queue is cancelled in wait_for(mr_queue.get()) or in the await of
\* a collaborator call inside process_merge_request, whose "except Exception"
\* does not catch CancelledError: a run in progress is left where it is.
ConsumerCancelled ==
  /\ queue_task = "cancelling"
  /\ queue_task' = DeliverCancel(queue_task)
  /\ UNCHANGED <<handlers, config, running, shutdown_event, service, sessions, email_task>>
  /\ UNCHANGED <<pollerVars, mr_queue, consumerVars, storeVars, classifyVars, utilVars>>

\* process_queue: "while self.running" holds, the queue is empty and
\* mr_queue.get() suspends.
ConsumerSuspend ==
  /\ queue_task = "active"
  /\ ConsumerIdle(cpc)
  /\ running
  /\ mr_queue = << >>
  /\ cpc' = "get"
  /\ getter_woken' = FALSE
  /\ UNCHANGED <<variant, allowed_states, detected, mr_info, calls, summary, runs, notes>>
  /\ UNCHANGED <<pollerVars, mr_queue, storeVars, serviceVars, classifyVars, utilVars>>

\* The suspended mr_queue.get() returns an event that was put meanwhile; the
\* run starts without a further look at self.running.
ConsumerWake ==
  /\ queue_task = "active"
  /\ cpc = "get"
  /\ getter_woken
  /\ mr_queue # << >>
  /\ mr_info' = Some(Head(mr_queue))
  /\ mr_queue' = Dequeue(mr_queue)
  /\ cpc' = "parse"
  /\ getter_woken' = FALSE
  /\ calls' = << >>
  /\ summary' = ""
  /\ UNCHANGED <<pollerVars, storeVars, serviceVars, classifyVars, utilVars, variant,
                 allowed_states, detected, runs, notes>>

\* wait_for times out after a second: "except asyncio.TimeoutError: continue".
ConsumerTimeout ==
  /\ queue_task = "active"
  /\ cpc = "get"
  /\ cpc' = "wait"
  /\ getter_woken' = FALSE
  /\ UNCHANGED <<variant, allowed_states, detected, mr_info, calls, summary, runs, notes>>
  /\ UNCHANGED <<pollerVars, mr_queue, storeVars, serviceVars, classifyVars, utilVars>>

\* process_queue: "while self.running" fails and the coroutine returns.
ConsumerExit ==
  /\ queue_task = "active"
  /\ ConsumerIdle(cpc)
  /\ ~running
  /\ queue_task' = "finished"
  /\ UNCHANGED <<handlers, config, running, shutdown_event, service, sessions, email_task>>
  /\ UNCHANGED <<pollerVars, mr_queue, consumerVars, storeVars, classifyVars, utilVars>>

\* start(): gather returns when both tasks are done, then stop().
ServiceStop ==
  /\ service = "gathering"
  /\ email_task \in {"cancelled", "finished"}
  /\ queue_task \in {"cancelled", "finished"}
  /\ service' = "stopped"
  /\ running' = FALSE
  /\ sessions' = FALSE
  /\ UNCHANGED <<handlers, config, shutdown_event, email_task, queue_task>>
  /\ UNCHANGED <<pollerVars, mr_queue, consumerVars, storeVars, classifyVars, utilVars>>

\* start() is cancelled while it waits for the shutdown event: without the
\* handlers an interrupt reaches asyncio.run, which cancels the task that runs
\* main(); "except asyncio.CancelledError" logs it and the finally clause
\* runs stop(). The two tasks are neither cancelled nor awaited on this path.
StartCancelled ==
  /\ service = "waiting"
  /\ ~handlers
  /\ service' = "stopped"
  /\ running' = FALSE
  /\ sessions' = FALSE
  /\ UNCHANGED <<handlers, config, shutdown_event, email_task, queue_task>>
  /\ UNCHANGED <<pollerVars, mr_queue, consumerVars, storeVars, classifyVars, utilVars>>

\* asyncio.run(main()): main() has returned; the tasks that are left are
\* cancelled before the loop is closed.
RunnerCancel ==
  /\ service = "stopped"
  /\ "active" \in {email_task, queue_task}
  /\ email_task' = RequestCancel(email_task)
  /\ queue_task' = RequestCancel(queue_task)
  /\ UNCHANGED <<handlers, config, running, shutdown_event, service, sessions>>
  /\ UNCHANGED <<pollerVars, mr_queue, consumerVars, storeVars, classifyVars, utilVars>>

\* The service of main.py from its construction on.
SvcInit ==
  /\ PollerInit
  /\ processed_file = None
  /\ ConsumerInit
  /\ StoreInit
  /\ ServiceCreated
  /\ ClassifyIdle
  /\ UtilIdle
  /\ variant = "mcp"
  /\ allowed_states = {"opened"}

SvcNext ==
  \/ StartInvalid
  \/ StartTasks
  \/ StartSessionsFail
  \/ SignalHandler
  \/ CancelTasks
  \/ PollerCancelled
  \/ ConsumerCancelled
  \/ Detect
  \/ ConsumerGet
  \/ ConsumerSuspend
  \/ ConsumerWake
  \/ ConsumerTimeout
  \/ ConsumerExit
  \/ StageParse
  \/ StageMetadata
  \/ StageChanges
  \/ StageSummarize
  \/ StagePost
  \/ ServiceStop
  \/ StartCancelled
  \/ RunnerCancel

SvcSpec == SvcInit /\ [][SvcNext]_vars

\* Every step that is due is taken: start() resumes after the event is set,
\* a requested cancellation is delivered, and gather returns.
SvcLiveSpec ==
  /\ SvcInit
  /\ [][SvcNext]_vars
  /\ WF_vars(CancelTasks)
  /\ WF_vars(PollerCancelled)
  /\ WF_vars(ConsumerCancelled)
  /\ WF_vars(ServiceStop)

\* ------------------------------------------------------- liveness of the poller
\* The poller while its process lives: cycles keep being started, and a
\* fetch that can succeed does so eventually.
LiveNext ==
  \/ Arrive
  \/ PollConnect
  \/ PollConnectFail
  \/ PollSkip
  \/ PollFetchFail
  \/ PollExamine
  \/ PollFinish

LiveSpec ==
  /\ Init
  /\ [][LiveNext]_vars
  /\ WF_vars(PollConnect)
  /\ WF_vars(PollSkip)
  /\ WF_vars(PollFinish)
  /\ \A i \in 1..MaxMsgs : SF_vars(PollExamine /\ idx = i)

\* ------------------------------------------------- the two dedupe stores
\* Messages of a mailbox that is already filled when the process starts: a
\* non-assignment and an old message (marked without a save) and an
\* assignment with a url (marked and saved).
DedupeMessages ==
  {[date |-> Some(1), marker |-> FALSE, url |-> None, decodable |-> TRUE],
   [date |-> Some(0), marker |-> TRUE, url |-> Some("mr_url"), decodable |-> TRUE],
   [date |-> None, marker |-> TRUE, url |-> Some("mr_url"), decodable |-> TRUE]}

DedupeInit ==
  /\ \E messages \in [1..MaxMsgs -> DedupeMessages] : PollerStart(messages)
  /\ ConsumerInit
  /\ StoreInit
  /\ ServiceStarted
  /\ ClassifyIdle
  /\ UtilIdle
  /\ variant = "mcp"
  /\ allowed_states = {"opened"}

\* JSONEmailStorage under add, save and load, and the EmailMonitor's own
\* set under poll cycles and restarts.
DedupeNext ==
  \/ StoreAdd
  \/ StoreSave
  \/ StoreLoad
  \/ PollConnect
  \/ PollConnectFail
  \/ PollSkip
  \/ PollFetchFail
  \/ PollExamine
  \/ PollFinish
  \/ Restart

DedupeSpec == DedupeInit /\ [][DedupeNext]_vars

\* ------------------------------------------------------------ classification
\* A text is a sequence of pieces that are separated by single spaces; the
\* pieces are the parts of the phrases that matter, in two letter cases.
Pieces ==
  {"was added as an", "assignee", "assigned", "ASSIGNED", "you to",
   "merge request", "was added as a", "reviewer"}

Texts(n) == UNION {[1..k -> Pieces] : k \in 0..n}

\* str.lower()
LowerPiece(piece) == IF piece = "ASSIGNED" THEN "assigned" ELSE piece

LowerText(text) == [i \in DOMAIN text |-> LowerPiece(text[i])]

\* "indicator in text_to_check"
Contains(text, phrase) ==
  \E i \in 0..(Len(text) - Len(phrase)) :
    SubSeq(text, i + 1, i + Len(phrase)) = phrase

\* assignment_indicators, lines 137-141.
AssignmentIndicators ==
  {<<"was added as an", "assignee">>,
   <<"assigned", "you to", "merge request">>,
   <<"assigned", "merge request">>}

\* _is_gitlab_assignment_email: some indicator occurs in
\* (subject + " " + body).lower().
TextIsGitlabAssignment(subj, text) ==
  LET text_to_check == LowerText(subj \o text) IN
  \E indicator \in AssignmentIndicators : Contains(text_to_check, indicator)

\* _is_gitlab_assignment_email is called on the subject and the body.
Classify ==
  /\ is_assignment = None
  /\ is_assignment' = Some(TextIsGitlabAssignment(subject, body))
  /\ UNCHANGED <<subject, body>>
  /\ UNCHANGED <<pollerVars, mr_queue, consumerVars, storeVars, serviceVars, utilVars>>

ClassifyInit ==
  /\ PollerInit
  /\ ConsumerInit
  /\ StoreInit
  /\ ServiceStarted
  /\ UtilIdle
  /\ variant = "mcp"
  /\ allowed_states = {"opened"}
  /\ subject \in Texts(MaxSubject)
  /\ body \in Texts(MaxBody)
  /\ is_assignment = None

ClassifyNext == Classify

ClassifySpec == ClassifyInit /\ [][ClassifyNext]_vars

\* ---------------------------------------------------------------- extraction
\* A body is a sequence of pieces: the two schemes, a run of url characters,
\* the path segment of a merge request, a digit, white space, the two angle
\* brackets and a full stop.
UrlPieces ==
  {"https://", "http://", "g", "/-/merge_requests/", "2", " ", "<", ">", "."}

Bodies(n) == UNION {[1..k -> UrlPieces] : k \in 0..n}

\* https?://
IsScheme(piece) == piece \in {"https://", "http://"}

\* [^\s<>]
InUrlClass(piece) == piece \notin {" ", "<", ">"}

\* \d
IsDigit(piece) == piece = "2"

\* A pattern that ends in \d: one digit only.
DigitsEndFirst(text, d) == d

\* \d+ from the digit at position d on: the last position of the longest run
\* of digits.
DigitsEnd(text, d) ==
  CHOOSE e \in d..Len(text) :
    /\ \A j \in d..e : IsDigit(text[j])
    /\ e = Len(text) \/ ~IsDigit(text[e + 1])

\* The positions at which [^\s<>]+ can end after the scheme at position i:
\* a non-empty run of the class that /-/merge_requests/ and a digit follow.
ClassEnds(text, i) ==
  {k \in (i + 1)..(Len(text) - 2) :
     /\ \A j \in (i + 1)..k : InUrlClass(text[j])
     /\ text[k + 1] = "/-/merge_requests/"
     /\ IsDigit(text[k + 2])}

\* https?://[^\s<>]+/-/merge_requests/\d+ matched at position i: the position
\* of the last piece of the match, 0 when there is none. The quantifiers are
\* greedy: the longest run of the class is tried first.
MatchAt(text, i) ==
  IF ~IsScheme(text[i]) \/ ClassEnds(text, i) = {} THEN 0
  ELSE LET k == CHOOSE c \in ClassEnds(text, i) :
                  \A m \in ClassEnds(text, i) : m <= c
       IN  DigitsEnd(text, k + 2)

\* re.search(pattern, email_body): the leftmost match, or None.
Search(text) ==
  LET starts == {i \in DOMAIN text : MatchAt(text, i) # 0} IN
  IF starts = {} THEN None
  ELSE LET i == CHOOSE s \in starts : \A t \in starts : s <= t
       IN  Some(SubSeq(text, i, MatchAt(text, i)))

\* str.rstrip(piece)
RECURSIVE RStrip(_, _)
RStrip(text, piece) ==
  IF text # << >> /\ text[Len(text)] = piece
  THEN RStrip(SubSeq(text, 1, Len(text) - 1), piece)
  ELSE text

\* _extract_gitlab_mr_url: match.group(0).rstrip('>').rstrip('.'), or None.
TextExtractGitlabMrUrl(email_body) ==
  LET match == Search(email_body) IN
  IF match = None THEN None
  ELSE Some(RStrip(RStrip(match[1], ">"), "."))

\* _extract_gitlab_mr_url is called on the body.
Extract ==
  /\ extracted = None
  /\ extracted' = Some(TextExtractGitlabMrUrl(body))
  /\ UNCHANGED <<subject, body, is_assignment, ref_url, parsed, redisVars, promptVars, outcomes>>
  /\ UNCHANGED <<pollerVars, mr_queue, consumerVars, storeVars, serviceVars>>

ExtractInit ==
  /\ PollerInit
  /\ processed_file = None
  /\ ConsumerInit
  /\ StoreInit
  /\ ServiceStarted
  /\ variant = "mcp"
  /\ allowed_states = {"opened"}
  /\ subject = << >>
  /\ body \in Bodies(MaxUrlBody)
  /\ is_assignment = None
  /\ extracted = None
  /\ ref_url = << >>
  /\ parsed = None
  /\ RedisIdle
  /\ PromptIdle
  /\ outcomes = None

ExtractNext == Extract

ExtractSpec == ExtractInit /\ [][ExtractNext]_vars

\* ------------------------------------------------------------------ claims
Ids == 1..MaxMsgs

\* C1 (no double emission): a cycle that follows a completed cycle of the
\* same process over the same search result hands no event to the callback.
C1_NoDoubleEmission == repeat => new_assignments = 0

\* A second cycle over an unchanged result has completed, and the result
\* holds a message for which an earlier cycle of this process emitted an event.
C1_Witness ==
  /\ repeat
  /\ last_cycle = "completed"
  /\ \E id \in Range(email_ids) : emitted[id] = <<start_time>>

Qualifies(id) ==
  /\ id <= Len(mailbox)
  /\ mailbox[id].marker
  /\ mailbox[id].url # None
  /\ mailbox[id].date # None
  /\ mailbox[id].date[1] >= start_time

\* C3, as claimed: for every qualifying message some poll cycle eventually
\* hands an event to the queue, provided cycles keep running and the mailbox
\* is eventually reachable.
C3_EventuallyEmitted ==
  \A id \in Ids : [](Qualifies(id) => <>(emitted[id] # << >>))

\* What the code does keep of C3: a qualifying message is eventually emitted
\* when no message before it in the search result raises while it is decoded.
C3_EmittedUnlessBlocked ==
  \A id \in Ids :
    []((Qualifies(id) /\ \A j \in 1..id : mailbox[j].decodable)
        => <>(emitted[id] # << >>))

\* The ids a dedupe file holds.
Persisted(file) == IF file = None THEN {} ELSE Range(file[1].processed_ids)

C5_ExaminedAreMarked ==
  (ppc = "idle" /\ last_cycle \in {"completed", "contact_failed", "message_error"}) =>
    /\ examined \subseteq processed_emails
    /\ \A id \in Range(email_ids) :
         id \notin processed_emails => last_cycle = "contact_failed"

\* What the code does keep of C5: a fetched message is left unmarked only if
\* decoding it raised, and that ends the cycle.
C5_MarkedUnlessDecodingRaised ==
  \A id \in examined :
    id \notin processed_emails =>
      ~mailbox[id].decodable /\ ppc = "idle" /\ last_cycle = "message_error"

\* The fixed order of the stages.
StageOrder == <<"parse", "metadata", "changes", "summarize", "post">>

\* The call histories of the finished runs and of the run in progress.
RunCalls == {runs[i].calls : i \in DOMAIN runs} \cup {calls}

\* C6 (state gate): when the state returned by the fetch-metadata stage is
\* not in the allow-list, the run ends there: that call is the last one of
\* the run, so get-changes, summarize and post-comment are not invoked.
C6_StateGate ==
  /\ \A c \in RunCalls : \A i \in DOMAIN c :
       (/\ c[i].stage = "metadata"
        /\ c[i].ans.kind = "ok"
        /\ Lower(c[i].ans.data) \notin allowed_states)
       => Len(c) = i
  /\ \A i \in DOMAIN calls :
       (calls[i].stage = "metadata" /\ calls[i].ans.kind = "ok")
       => Lower(calls[i].ans.data) \in allowed_states

\* A run has ended at the state check, on a state outside the allow-list.
C6_Witness ==
  \E i \in DOMAIN runs :
    LET c == runs[i].calls IN
    /\ runs[i].skipped
    /\ Len(c) = 2
    /\ c[2].stage = "metadata"
    /\ c[2].ans.kind = "ok"
    /\ Lower(c[2].ans.data) \notin allowed_states

\* C7, as claimed: a run that the state check ended is not reported as failed
\* by the consumer, and what it returned differs from what a run with a
\* failed stage returns.
C7_SkipIsNotFailure ==
  \A i \in DOMAIN runs :
    runs[i].skipped =>
      /\ runs[i].report # "failed"
      /\ \A j \in DOMAIN runs :
           (~runs[j].skipped /\ ~runs[j].success) => runs[j].success # runs[i].success

\* Whether a call did what its stage is for: the collaborator answered with
\* a payload, the state passed the check, the summary is no error text.
StageSucceeded(call) ==
  /\ call.ans.kind = "ok"
  /\ call.stage = "metadata" => Lower(call.ans.data) \in allowed_states
  /\ call.stage = "summarize" => ~IsErrorText(call.ans.data)

InStageOrder(c) ==
  /\ Len(c) <= Len(StageOrder)
  /\ \A i \in DOMAIN c : c[i].stage = StageOrder[i]

\* C8, as claimed: the stages are invoked in the fixed order and a stage is
\* invoked only if every earlier stage of the run succeeded.
C8_StageShortCircuit ==
  \A c \in RunCalls :
    /\ InStageOrder(c)
    /\ \A i, j \in DOMAIN c : i < j => StageSucceeded(c[i])

\* What the code does keep of C8: the fixed order, and a run whose
\* fetch-changes call fails (raise, empty result, error payload) ends there.
C8_ChangesFailureEndsRun ==
  \A c \in RunCalls :
    /\ InStageOrder(c)
    /\ \A i \in DOMAIN c :
         (c[i].stage = "changes" /\ c[i].ans.kind # "ok") => Len(c) = i

\* C9, as claimed: when the backend of the summarize stage is unreachable,
\* times out or answers with an error, the run ends at that stage, and no
\* comment carries an error text.
C9_SummarizeFailureAborts ==
  /\ \A c \in RunCalls : \A i \in DOMAIN c :
       (c[i].stage = "summarize" /\ c[i].ans.backend # "ok") => Len(c) = i
  /\ \A n \in DOMAIN notes : ~IsErrorText(notes[n].body)

\* The number of runs, finished or in progress, of the event with subject n.
RunsOf(n) ==
  Cardinality({i \in DOMAIN runs : runs[i].event.subject = n})
  + (IF mr_info # None /\ mr_info[1].subject = n THEN 1 ELSE 0)

\* The number of times the event with subject n is on the queue.
QueuedOf(n) == Cardinality({i \in DOMAIN mr_queue : mr_queue[i].subject = n})

\* C10 (no retry): an event is either still on the queue, once, or it was
\* taken and has exactly one run; no run invokes a stage twice.
C10_NoRetry ==
  /\ \A n \in 1..MaxEvents :
       RunsOf(n) + QueuedOf(n) = (IF n <= detected THEN 1 ELSE 0)
  /\ \A c \in RunCalls : \A i, j \in DOMAIN c :
       c[i].stage = c[j].stage => i = j

\* A run has failed at post-comment after every earlier stage succeeded, the
\* consumer is waiting again and the queue is empty.
C10_Witness ==
  /\ cpc = "wait"
  /\ mr_queue = << >>
  /\ \E i \in DOMAIN runs :
       /\ ~runs[i].success
       /\ Len(runs[i].calls) = 5
       /\ runs[i].calls[5].stage = "post"

\* C11 (FIFO): the events are run in the order in which they were put on the
\* queue (an event's subject is its position in that order): finished runs,
\* then the run in progress, then the events still queued.
C11_Fifo ==
  LET started == [i \in DOMAIN runs |-> runs[i].event.subject]
                 \o (IF mr_info = None THEN << >> ELSE <<mr_info[1].subject>>)
      order == started \o [i \in DOMAIN mr_queue |-> mr_queue[i].subject]
  IN \A i, j \in DOMAIN order : i < j => order[i] < order[j]

\* Two events were run, the second after the first had finished.
C11_Witness ==
  /\ Len(runs) = 2
  /\ runs[1].event.subject = 1
  /\ runs[2].event.subject = 2
  /\ Len(runs[1].calls) = 5

\* The events that were taken from the queue and whose run has not returned.
InFlight == detected - Len(runs) - Len(mr_queue)

\* C12 (single consumer): at most one run is in progress, also while the
\* poller puts further events on the queue.
C12_SingleRun ==
  /\ InFlight <= 1
  /\ InFlight = 1 <=> mr_info # None

\* An event was put on the queue while a run was past its first stage.
C12_Witness ==
  /\ mr_info # None
  /\ Len(calls) >= 2
  /\ mr_queue # << >>

\* C13, as claimed: once signal_handler has run, no step starts a run.
C13_NoRunAfterShutdown ==
  [][(shutdown_event /\ mr_info = None) => mr_info' = None]_vars

\* What the code does keep of C13: no run starts once start() has cancelled
\* the tasks.
C13_NoRunAfterCancel ==
  [][(service \in {"gathering", "stopped"} /\ mr_info = None)
       => mr_info' = None]_vars

\* C14, as claimed: the consumer loop does not end while a run is in
\* progress; a run that shutdown finds in progress reaches its outcome first.
C14_InFlightRunFinishes ==
  queue_task \in {"cancelled", "finished"} => mr_info = None

\* C15 (shutdown terminates both loops): after signal_handler has run, the
\* poller task and the consumer task end, whatever they were doing, and the
\* service reaches its stopped state.
C15_ShutdownTerminates ==
  shutdown_event ~> (/\ service = "stopped"
                     /\ email_task = "cancelled"
                     /\ queue_task \in {"cancelled", "finished"})

\* The service has stopped after a signal that found the consumer inside a
\* run; both tasks ended by cancellation.
C15_Witness ==
  /\ service = "stopped"
  /\ shutdown_event
  /\ email_task = "cancelled"
  /\ queue_task = "cancelled"
  /\ mr_info # None

\* The rules a configuration violates.
ViolatedRules(cfg) ==
  {rule \in {"token", "address", "password", "interval"} :
     \/ rule = "token" /\ cfg.gitlab_token = ""
     \/ rule = "address" /\ cfg.gmail_email = ""
     \/ rule = "password" /\ cfg.gmail_app_password = ""
     \/ rule = "interval" /\ ~(cfg.check_interval > 0)}

\* C16 (validation gates startup): validate returns one error per violated
\* rule, no error twice, and with a non-empty list neither the sessions nor
\* the poller task nor the consumer task is ever started.
C16_ValidationGatesStartup ==
  LET errors == Validate(config) IN
  /\ Len(errors) = Cardinality(ViolatedRules(config))
  /\ \A i, j \in DOMAIN errors : errors[i] = errors[j] => i = j
  /\ errors # << >> =>
       /\ service \in {"created", "invalid"}
       /\ ~running
       /\ ~sessions
       /\ email_task = "none"
       /\ queue_task = "none"

\* start() has returned on a configuration that violates all four rules.
C16_Witness ==
  /\ service = "invalid"
  /\ Len(Validate(config)) = 4
  /\ config.check_interval = 0

\* C17 (the poller survives failed cycles): an error in a cycle never ends
\* the poller loop, and after a failed cycle a further cycle is started.
C17_PollerSurvives ==
  /\ [](ppc \in {"idle", "scan"})
  /\ [](last_cycle \in {"contact_failed", "message_error"}
         => <>(last_cycle = "running"))

\* A cycle was ended by an exception raised while a fetched message was
\* decoded, and the loop is at its sleep before the next cycle.
C17_Witness ==
  /\ ppc = "idle"
  /\ last_cycle = "message_error"
  /\ examined # {}

\* The answers with which a stage has failed: the call raised, returned
\* nothing, was refused by the REST server, or returned an error payload.
StageFailed(call) == call.ans.kind \in {"raise", "empty", "nosuccess", "error"}

\* C18, as claimed: a run in which a stage failed has returned false, and
\* the consumer loop is alive to take the next event.
C18_FailedRunReturnsFalse ==
  /\ queue_task = "active"
  /\ \A i \in DOMAIN runs :
       (\E k \in DOMAIN runs[i].calls : StageFailed(runs[i].calls[k]))
       => ~runs[i].success

\* What the code does keep of C18: the loop stays alive, and a failure of
\* any stage but summarize makes the run return false.
C18_FailedRunReturnsFalseButSummarize ==
  /\ queue_task = "active"
  /\ \A i \in DOMAIN runs :
       (\E k \in DOMAIN runs[i].calls :
          StageFailed(runs[i].calls[k]) /\ runs[i].calls[k].stage # "summarize")
       => ~runs[i].success

\* The finished runs of the event with subject n.
FinishedRunsOf(n) ==
  Cardinality({i \in DOMAIN runs : runs[i].event.subject = n})

\* C19, as claimed: when the service has stopped, every event that was handed
\* to the queue has had exactly one run, which has returned.
C19_ConsumedExactlyOnce ==
  service = "stopped" => \A n \in 1..detected : FinishedRunsOf(n) = 1

\* What the code does keep of C19: no event has more than one run.
C19_ConsumedAtMostOnce ==
  \A n \in 1..MaxEvents : RunsOf(n) + QueuedOf(n) <= 1

\* The markers the classification is claimed to know.
ClaimedMarkers ==
  {<<"was added as an", "assignee">>,
   <<"assigned", "you to", "merge request">>,
   <<"was added as a", "reviewer">>}

\* C20, as claimed: a text that contains one of the claimed markers, in any
\* letter case, is classified as an assignment, and a text that contains no
\* marker of the set is not.
C20_ClassifiedByMarkers ==
  is_assignment # None =>
    LET text == LowerText(subject \o body) IN
    /\ (\E marker \in ClaimedMarkers : Contains(text, marker))
         => is_assignment = Some(TRUE)
    /\ (\A marker \in ClaimedMarkers \cup AssignmentIndicators :
          ~Contains(text, marker))
         => is_assignment = Some(FALSE)

\* What the code does keep of C20: the text is an assignment exactly if it
\* contains, in any letter case and also across the end of the subject, one
\* of the three indicators of the code.
C20_ClassifiedByIndicators ==
  is_assignment # None =>
    (is_assignment = Some(TRUE)
       <=> \E indicator \in AssignmentIndicators :
             Contains(LowerText(subject \o body), indicator))

\* A merge-request reference url: a scheme, a non-empty run of url characters,
\* the segment /-/merge_requests/ and a non-empty run of digits.
IsMrReference(u) ==
  /\ Len(u) >= 4
  /\ IsScheme(u[1])
  /\ \E m \in 3..(Len(u) - 1) :
       /\ u[m] = "/-/merge_requests/"
       /\ \A j \in 2..(m - 1) : u[j] \notin {" ", "<", ">"}
       /\ \A j \in (m + 1)..Len(u) : u[j] = "2"

\* The places of a text that hold a reference url with all of its digits.
References(text) ==
  {r \in (DOMAIN text) \X (DOMAIN text) :
     /\ r[1] <= r[2]
     /\ IsMrReference(SubSeq(text, r[1], r[2]))
     /\ r[2] = Len(text) \/ text[r[2] + 1] # "2"}

\* C21 (extraction): from a body that holds exactly one reference url the
\* call returns that url, whatever surrounds it, and from a body that holds
\* none it returns None.
C21_ExtractsTheReference ==
  extracted # None =>
    LET refs == References(body) IN
    /\ \A r \in refs :
         refs = {r} => extracted[1] = Some(SubSeq(body, r[1], r[2]))
    /\ refs = {} => extracted[1] = None

\* The url was extracted from between angle brackets.
C21_Witness ==
  /\ extracted # None
  /\ extracted[1] # None
  /\ body[1] = "<"
  /\ body[Len(body)] = ">"
  /\ extracted[1][1] = SubSeq(body, 2, Len(body) - 1)
  /\ Len(extracted[1][1]) = 4

\* A body without a reference url, though it holds a scheme and the segment,
\* yields None.
C21_WitnessNone ==
  /\ extracted = Some(None)
  /\ \E i, j \in DOMAIN body :
       i < j /\ IsScheme(body[i]) /\ body[j] = "/-/merge_requests/"

\* A string of the shape <scheme>://<host>/<project path>/-/merge_requests/<N>.
WellFormed(pieces) ==
  /\ Len(pieces) >= 4
  /\ pieces[1] = "https://h"
  /\ \E m \in 3..(Len(pieces) - 1) :
       /\ pieces[m] = "/-/merge_requests/"
       /\ \A j \in 2..(m - 1) : pieces[j] = "/g"
       /\ \A j \in (m + 1)..Len(pieces) : pieces[j] \in {"2", "4"}

\* The project path and the number that a well-formed string names.
Named(pieces) ==
  LET m == CHOOSE k \in DOMAIN pieces : pieces[k] = "/-/merge_requests/" IN
  [project_id |-> Tail(Spell(SubSeq(pieces, 2, m - 1))),
   mr_iid |-> Decimal(SubSeq(pieces, m + 1, Len(pieces)))]

\* C22, as claimed: parse_mr_url returns the project path and the number of a
\* string of the shape, and no reference for any other string.
C22_ParsesTheShapeOnly ==
  parsed # None =>
    IF WellFormed(ref_url) THEN parsed[1] = Some(Named(ref_url))
    ELSE parsed[1] = None

\* What the code does keep of C22: a string of the shape yields its project
\* path and number, and a string without exactly one merge-request segment
\* yields no reference.
C22_ParsesWellFormed ==
  parsed # None =>
    /\ WellFormed(ref_url) => parsed[1] = Some(Named(ref_url))
    /\ Cardinality({i \in DOMAIN ref_url : ref_url[i] = "/-/merge_requests/"}) # 1
         => parsed[1] = None

\* What the code does keep of C22 in the orchestrator: a run on a string for
\* which parse_mr_url returns no reference ends at the parse stage, returns
\* false and makes no further call.
C22_NoReferenceEndsRun ==
  /\ \A i \in DOMAIN runs :
       ParseMrUrl(runs[i].event.url) = None =>
         /\ ~runs[i].success
         /\ Len(runs[i].calls) = 1
         /\ runs[i].calls[1].stage = "parse"
  /\ (mr_info # None /\ ParseMrUrl(mr_info[1].url) = None) => calls = << >>

\* C23 (shared dedupe backend): an id whose add has returned is a member of
\* the shared set at once, every contains that returns afterwards returns
\* true, for the same instance, another process and a restarted one, without
\* any save; save and load change nothing but are recorded as called.
C23_AddIsDurable ==
  /\ [](\A id \in 1..MaxMsgs :
          redis_added[id] # None =>
            /\ id \in redis_members
            /\ (/\ redis_obs # None
                /\ redis_obs[1].op = "contains"
                /\ redis_obs[1].id = id
                /\ redis_obs[1].result # "raised")
               => redis_obs[1].result = "true")
  /\ [][(redis_obs' # None /\ redis_obs' # redis_obs
         /\ redis_obs'[1].op \in {"save", "load"})
        => redis_members' = redis_members]_vars

\* Another process, on its second start, is told that an id is contained
\* which the first process added.
C23_Witness ==
  /\ redis_obs # None
  /\ redis_obs[1].op = "contains"
  /\ redis_obs[1].result = "true"
  /\ redis_obs[1].starts = 2
  /\ redis_added[redis_obs[1].id] # None
  /\ redis_added[redis_obs[1].id][1].by # redis_obs[1].by

\* C24, as claimed: create_email_storage never raises; when use_redis is
\* false, and when it is true but the shared backend cannot be initialised,
\* it returns the file-backed storage.
C24_FallsBackToFile ==
  created # None =>
    /\ created[1].result # "raised"
    /\ (~created[1].use_redis \/ created[1].redis_env # "up")
         => created[1].result = "json"

\* What the code does keep of C24: the same, wherever the process can look
\* up config.processed_emails_db.
C24_FallsBackUnlessPathRaises ==
  (created # None /\ created[1].db_access # "no_search") =>
    /\ created[1].result # "raised"
    /\ (~created[1].use_redis \/ created[1].redis_env # "up")
         => created[1].result = "json"

\* C29, as claimed: save rewrites the file with the whole set; a new
\* JSONEmailStorage constructed right after a successful save holds the set
\* that was saved; a missing or unreadable file loads as the empty set, and
\* the load does not raise.
C29_RoundTrip ==
  [][/\ store_op' = "save" => Persisted(store_file') = store_emails
     /\ (store_op = "save" /\ store_op' \in {"load", "load_raised"})
          => (store_op' = "load" /\ store_emails' = store_emails)
     /\ (/\ store_op' \in {"load", "load_raised"}
         /\ store_file = None \/ db_access # "ok")
          => (store_op' = "load" /\ store_emails' = {})]_vars

\* What the code does keep of C29: the same, wherever the process can look
\* up the path of the file.
C29_RoundTripUnlessPathRaises ==
  [][/\ store_op' = "save" => Persisted(store_file') = store_emails
     /\ (store_op = "save" /\ store_op' \in {"load", "load_raised"})
          => (store_op' = "load" /\ store_emails' = store_emails)
     /\ (/\ store_op' \in {"load", "load_raised"}
         /\ db_access # "no_search"
         /\ store_file = None \/ db_access # "ok")
          => (store_op' = "load" /\ store_emails' = {})
     /\ store_op' = "load_raised" => db_access = "no_search"]_vars

OlderThan(id, t) == mailbox[id].date # None /\ mailbox[id].date[1] < t

\* The messages a step has fetched.
Fetched == {id \in Ids : id \in examined' /\ id \notin examined}

NoReference(id) ==
  /\ id <= Len(mailbox)
  /\ mailbox[id].decodable
  /\ mailbox[id].marker
  /\ mailbox[id].url = None

TaskTerminated(task) == task \in {"none", "cancelled", "finished"}

\* start() has left its try statement through stop().
StopHasRun == service = "stopped" /\ ~running /\ ~sessions

\* C28: the step that creates the poller task and the consumer task leaves
\* the orchestrator's sessions started; the step that stops the orchestrator
\* is taken only when both tasks have terminated; and once validation has
\* passed, every step by which start() ends has run stop().
C28_LifecycleOrdering ==
  [][ /\ (email_task = "none" /\ email_task' # "none") => sessions'
      /\ (queue_task = "none" /\ queue_task' # "none") => sessions'
      /\ (service # "stopped" /\ service' = "stopped") =>
           /\ StopHasRun'
           /\ TaskTerminated(email_task) /\ TaskTerminated(queue_task)
      /\ (Validate(config) = << >> /\ service \in {"created", "waiting", "gathering"}) =>
           service' \in {"waiting", "gathering", "stopped"} ]_vars

\* A step of process_queue or of the run it awaits.
ConsumerStep == consumerVars' # consumerVars

\* EmailMonitor.__init__ of a new process.
MonitorConstructed == start_time' # start_time

\* C30: a step of the queue consumer or of an orchestrator run, whatever the
\* run returns, leaves the processed set and its file as they were; the file
\* changes only in a step of a poll cycle, and the set only there or when a
\* new process builds it from the file.
C30_OnlyThePollerWrites ==
  [][ /\ ConsumerStep /\ ~MonitorConstructed => UNCHANGED <<processed_emails, processed_file>>
      /\ processed_file' # processed_file => ppc = "scan" /\ ~MonitorConstructed
      /\ processed_emails' # processed_emails => ppc = "scan" \/ MonitorConstructed ]_vars

\* C30: a run has failed and another has succeeded on events whose messages
\* are in the processed set and in the file.
C30_Witness ==
  /\ \E i \in DOMAIN runs : ~runs[i].success /\ runs[i].event.subject \in processed_emails
  /\ \E i \in DOMAIN runs : runs[i].success /\ runs[i].event.subject \in Persisted(processed_file)

\* C31: the queue enforces a capacity: it never holds at once all the events
\* that can be detected, so some put has waited or been refused.
C31_BoundedQueue == Len(mr_queue) < MaxEvents

\* ------------------------------------------------ summarization prompts
\* The lines a diff is made of: an empty line, a short added line and a long
\* removed line.
DiffLineTexts == {"", "+s", "-long"}

\* len(line)
LineLen(line) == CASE line = "" -> 0 [] line = "+s" -> 2 [] OTHER -> 1200

\* line.startswith(sign)
StartsWith(line, sign) ==
  \/ sign = "+" /\ line = "+s"
  \/ sign = "-" /\ line = "-long"

\* diff.split("\n") of any text has at least one line.
Diffs(n) == UNION {[1..k -> DiffLineTexts] : k \in 1..n}

ChangeFiles ==
  {[old_path |-> pair[1], new_path |-> pair[2], diff |-> diff] :
     pair \in {<<"a.py", "a.py">>, <<"a.py", "b.py">>}, diff \in Diffs(MaxDiffLines)}

\* The values MAX_FILES_IN_PROMPT and MAX_DIFF_LINES_PER_FILE are read as:
\* any integer, the default included; validate() does not look at them.
FileCeilings == (-1 .. MaxChangeFiles) \cup {NoLimit}
LineCeilings == (-1 .. MaxDiffLines) \cup {NoLimit}

Min(a, b) == IF a <= b THEN a ELSE b

Max(a, b) == IF a >= b THEN a ELSE b

\* seq[:k] of Python: a negative k counts from the end.
SliceTo(seq, k) ==
  IF k >= 0 THEN SubSeq(seq, 1, Min(k, Len(seq)))
  ELSE SubSeq(seq, 1, Max(Len(seq) + k, 0))

\* A line that is in the prompt with all of its characters.
WholeLine(line) == [text |-> line, chars |-> LineLen(line)]

\* build_prompt_summarize, loop body: the heading of a file and its diff.
RestSection(change, max_lines) ==
  LET diff_lines == change.diff
      lines_to_include == Min(Len(diff_lines), max_lines)
      included == SliceTo(diff_lines, lines_to_include)
  IN [heading |-> IF change.new_path = change.old_path
                  THEN <<change.new_path>>
                  ELSE <<change.old_path, change.new_path>>,
      lines |-> [i \in DOMAIN included |-> WholeLine(included[i])],
      note |-> IF Len(diff_lines) > max_lines
               THEN Some(Len(diff_lines) - max_lines) ELSE None]

\* build_prompt_summarize(title, description, changes, ..., max_files, max_lines)
BuildPromptSummarize(changes, max_files, max_lines) ==
  LET files_to_process == Min(Len(changes), max_files)
      shown == SliceTo(changes, files_to_process)
  IN [sections |-> [i \in DOMAIN shown |-> RestSection(shown[i], max_lines)],
      more_files |-> IF Len(changes) > files_to_process
                     THEN Some(Len(changes) - files_to_process) ELSE None]

\* len(diff): the lines and the newlines between them.
RECURSIVE DiffChars(_)
DiffChars(lines) ==
  IF lines = << >> THEN 0
  ELSE IF Len(lines) = 1 THEN LineLen(lines[1])
  ELSE LineLen(lines[1]) + 1 + DiffChars(Tail(lines))

\* diff[:budget]: the lines that are in the first budget characters, the last
\* of them with as many characters as are left after the newline before it.
RECURSIVE TruncateChars(_, _, _)
TruncateChars(lines, budget, first) ==
  IF lines = << >> THEN << >>
  ELSE IF ~first /\ budget < 1 THEN << >>
  ELSE LET left == IF first THEN budget ELSE budget - 1
           line == lines[1]
       IN IF LineLen(line) > left
          THEN <<[text |-> line, chars |-> left]>>
          ELSE <<WholeLine(line)>> \o TruncateChars(Tail(lines), left - LineLen(line), FALSE)

\* _summarize_code_changes, first loop: one entry of files_summary.
McpSection(change) ==
  LET diff_lines == change.diff
      long == DiffChars(diff_lines) > McpDiffChars
  IN [heading |-> <<IF change.new_path # "" THEN change.new_path ELSE change.old_path>>,
      additions |-> Cardinality({i \in DOMAIN diff_lines : StartsWith(diff_lines[i], "+")}),
      deletions |-> Cardinality({i \in DOMAIN diff_lines : StartsWith(diff_lines[i], "-")}),
      lines |-> IF long THEN TruncateChars(diff_lines, McpDiffChars, TRUE)
                ELSE [i \in DOMAIN diff_lines |-> WholeLine(diff_lines[i])],
      note |-> IF long THEN Some("truncated") ELSE None]

\* LocalLLMMCPServer._summarize_code_changes: the user prompt. The ceilings
\* of the configuration are not read.
McpSummarizeCodeChanges(changes) ==
  LET shown == SliceTo(changes, McpFileLimit)
  IN [sections |-> [i \in DOMAIN shown |-> McpSection(shown[i])],
      more_files |-> IF Len(changes) > McpFileLimit
                     THEN Some(Len(changes) - McpFileLimit) ELSE None,
      files_changed |-> Len(changes)]

\* The orchestrator adds one more file to the changes it will send.
RequestFile ==
  /\ prompt = None
  /\ Len(mr_changes) < MaxChangeFiles
  /\ \E change \in ChangeFiles : mr_changes' = Append(mr_changes, change)
  /\ UNCHANGED <<max_files_in_prompt, max_diff_lines_per_file, prompt>>
  /\ UNCHANGED <<pollerVars, mr_queue, consumerVars, storeVars, serviceVars, classifyVars,
                 extracted, ref_url, parsed, redisVars, outcomes>>

\* POST /api/summarize of the REST backend.
RestSummarize ==
  /\ prompt = None
  /\ prompt' = Some([backend |-> "rest",
                     built |-> BuildPromptSummarize(mr_changes, max_files_in_prompt,
                                                    max_diff_lines_per_file)])
  /\ UNCHANGED <<mr_changes, max_files_in_prompt, max_diff_lines_per_file>>
  /\ UNCHANGED <<pollerVars, mr_queue, consumerVars, storeVars, serviceVars, classifyVars,
                 extracted, ref_url, parsed, redisVars, outcomes>>

\* The summarize_code_changes tool of the MCP backend.
McpSummarize ==
  /\ prompt = None
  /\ prompt' = Some([backend |-> "mcp", built |-> McpSummarizeCodeChanges(mr_changes)])
  /\ UNCHANGED <<mr_changes, max_files_in_prompt, max_diff_lines_per_file>>
  /\ UNCHANGED <<pollerVars, mr_queue, consumerVars, storeVars, serviceVars, classifyVars,
                 extracted, ref_url, parsed, redisVars, outcomes>>

\* Either backend with its configuration loaded, before a request.
PromptInit ==
  /\ PollerInit
  /\ processed_file = None
  /\ ConsumerInit
  /\ StoreInit
  /\ ServiceStarted
  /\ ClassifyIdle
  /\ extracted = None
  /\ ref_url = << >>
  /\ parsed = None
  /\ RedisIdle
  /\ variant = "mcp"
  /\ allowed_states = {"opened"}
  /\ mr_changes = << >>
  /\ max_files_in_prompt \in FileCeilings
  /\ max_diff_lines_per_file \in LineCeilings
  /\ prompt = None
  /\ outcomes = None

PromptNext ==
  \/ RequestFile
  \/ RestSummarize
  \/ McpSummarize

PromptSpec == PromptInit /\ [][PromptNext]_vars

\* The texts of the lines of a section that are in the prompt with all of
\* their characters.
WholeLinesOf(section) ==
  LET whole == {i \in DOMAIN section.lines :
                  section.lines[i].chars = LineLen(section.lines[i].text)}
  IN [i \in 1..Cardinality(whole) |-> section.lines[i].text]

\* The heading names the file.
Heads(section, change) ==
  section.heading \in {<<change.new_path>>, <<change.old_path, change.new_path>>}

\* C32: the prompt of either backend holds the first min(number of files,
\* max files) files in their order, of each at most max-diff-lines lines,
\* which are the first of its diff, and a truncation note exactly when a file
\* or a line of a diff was left out (a ceiling below zero read as zero).
C32_CeilingsRespected ==
  prompt # None =>
    LET built == prompt[1].built
        files == Max(0, Min(Len(mr_changes), max_files_in_prompt))
        left_out ==
          \/ Len(built.sections) < Len(mr_changes)
          \/ \E i \in DOMAIN built.sections :
               Len(WholeLinesOf(built.sections[i])) < Len(mr_changes[i].diff)
        noted ==
          \/ built.more_files # None
          \/ \E i \in DOMAIN built.sections : built.sections[i].note # None
    IN /\ Len(built.sections) = files
       /\ \A i \in DOMAIN built.sections :
            /\ Heads(built.sections[i], mr_changes[i])
            /\ Len(built.sections[i].lines) <= Max(0, max_diff_lines_per_file)
            /\ WholeLinesOf(built.sections[i])
                 = SubSeq(mr_changes[i].diff, 1, Len(WholeLinesOf(built.sections[i])))
       /\ noted <=> left_out

\* C32 for the REST backend with ceilings that are not negative.
C32_RestCeilingsRespected ==
  (/\ prompt # None
   /\ prompt[1].backend = "rest"
   /\ max_files_in_prompt >= 0
   /\ max_diff_lines_per_file >= 0) => C32_CeilingsRespected

\* The stages a call history invoked, in the order of the calls.
StagesOf(c) == [k \in DOMAIN c |-> c[k].stage]

\* C33: a run that returned true has invoked the five stages once each in
\* their order, the state it was given is in the allow-list and the
\* post-comment call returned a result that is no error; no run, finished or
\* in progress, has invoked post-comment more than once.
C33_SuccessMeansPosted ==
  /\ \A i \in DOMAIN runs :
       runs[i].success =>
         /\ StagesOf(runs[i].calls) = StageOrder
         /\ runs[i].calls[2].ans.kind = "ok"
         /\ Lower(runs[i].calls[2].ans.data) \in allowed_states
         /\ runs[i].calls[5].ans.kind = "ok"
         /\ ~runs[i].skipped
  /\ \A c \in RunCalls :
       Cardinality({k \in DOMAIN c : c[k].stage = "post"}) <= 1

\* C33: one run has returned true, and another has returned false after its
\* post-comment call came back with an error.
C33_Witness ==
  /\ \E i \in DOMAIN runs : runs[i].success /\ Len(runs[i].calls) = 5
  /\ \E i \in DOMAIN runs :
       /\ ~runs[i].success
       /\ Len(runs[i].calls) = 5
       /\ runs[i].calls[5].ans.kind = "error"

\* ------------------------------------------- from the body to the parsed url
\* The pieces of the bodies whose extracted url is parsed: a scheme, a run of
\* url characters without and with a leading slash, the merge-request
\* segment, a digit, a full stop and white space.
HandoverPieces == {"https://", "g", "/g", "/-/merge_requests/", "2", ".", " "}

\* Step 1 of process_merge_request on the url of the event, which is the
\* string _extract_gitlab_mr_url returned.
ParseExtracted ==
  /\ extracted # None
  /\ extracted[1] # None
  /\ parsed = None
  /\ ref_url' = extracted[1][1]
  /\ parsed' = Some(ParseMrUrlText(Spell(extracted[1][1])))
  /\ UNCHANGED <<extracted, redisVars, promptVars, outcomes>>
  /\ UNCHANGED <<pollerVars, mr_queue, consumerVars, storeVars, serviceVars,
                 classifyVars>>

HandoverInit ==
  /\ PollerInit
  /\ processed_file = None
  /\ ConsumerInit
  /\ StoreInit
  /\ ServiceStarted
  /\ variant = "mcp"
  /\ allowed_states = {"opened"}
  /\ subject = << >>
  /\ body \in UNION {[1..k -> HandoverPieces] : k \in 0..MaxUrlBody}
  /\ is_assignment = None
  /\ extracted = None
  /\ ref_url = << >>
  /\ parsed = None
  /\ RedisIdle
  /\ PromptIdle
  /\ outcomes = None

HandoverNext ==
  \/ Extract
  \/ ParseExtracted

HandoverSpec == HandoverInit /\ [][HandoverNext]_vars

\* C34: the string that extraction returned is accepted by parse_mr_url.
C34_ExtractedIsParseable == parsed # None => parsed[1] # None

\* C35: when a cycle has completed, every id that it fetched and added to the
\* processed set is in the file, so that a restart loads it.
C35_MarksDurableAtCycleEnd ==
  (ppc = "idle" /\ last_cycle = "completed") =>
    \A id \in examined :
      id \in processed_emails => id \in Persisted(processed_file)

\* What the code keeps of C35: the messages for which the cycle saved, the
\* emitted ones and the assignments without a reference, are in the file.
C35_SavedBranchesAreDurable ==
  (ppc = "idle" /\ last_cycle = "completed") =>
    \A id \in examined :
      (/\ id \in processed_emails
       /\ IsGitlabAssignmentEmail(mailbox[id])
       /\ ~IsOldEmail(mailbox[id], start_time)) => id \in Persisted(processed_file)

\* A message of the search result that the process has not marked and whose
\* fetch and decoding raise nothing.
Examinable(id) ==
  /\ id <= Len(mailbox)
  /\ mailbox[id].decodable
  /\ id \notin processed_emails

\* C36: every such message is examined in the cycle that is running or in a
\* later one, whatever happens to the other messages of the result, also to
\* one that raises each time it is fetched and decoded.
C36_FaultIsolation ==
  \A id \in Ids : [](Examinable(id) => <>(id \in examined))

\* What the code keeps of C36: the message is examined when no message before
\* it in the search result raises while it is decoded.
C36_ExaminedUnlessBlocked ==
  \A id \in Ids :
    []((Examinable(id) /\ \A j \in 1..id : mailbox[j].decodable)
        => <>(id \in examined))

\* ------------------------------------- both orchestrators, one merge request
\* What the collaborators of one merge request do when they are called: the
\* GitLab side answers, answers with an error or cannot be reached, at each of
\* its three calls; the summarizer's server cannot be reached, or it can and
\* its Ollama backend ends in one of its ways.
Outcomes ==
  [url : EventUrls,
   metadata : MrStates \cup {"error", "unreachable"},
   changes : {"ok", "error", "unreachable"},
   summarize : OllamaOutcomes \cup {"server_unreachable"},
   post : {"ok", "error", "unreachable"}]

\* A failed call as the orchestrator meets it: the session or the HTTP client
\* raises when the server cannot be reached; an error of the GitLab call is an
\* "error" payload of the MCP tool and an HTTP 500 of the REST server.
FailureAnswer(v, how) ==
  IF how = "unreachable" THEN Answer("raise", "", "")
  ELSE IF v = "mcp" THEN Answer("error", "", "")
  ELSE Answer("nosuccess", "", "")

\* The answer of a stage's call under the given outcomes.
AnswerOf(v, stage, out) ==
  CASE stage = "parse" -> ParseAnswer(out.url)
    [] stage = "metadata" ->
         IF out.metadata \in MrStates THEN Answer("ok", out.metadata, "")
         ELSE FailureAnswer(v, out.metadata)
    [] stage = "changes" ->
         IF out.changes = "ok" THEN Answer("ok", "", "")
         ELSE FailureAnswer(v, out.changes)
    [] stage = "summarize" ->
         IF out.summarize = "server_unreachable" THEN Answer("raise", "", "")
         ELSE IF v = "mcp" THEN Answer("ok", CallOllama(out.summarize), out.summarize)
         ELSE IF RestCallOllama(out.summarize) = None
              THEN Answer("nosuccess", "", out.summarize)
              ELSE Answer("ok", RestCallOllama(out.summarize)[1], out.summarize)
    [] OTHER ->
         IF out.post = "ok" THEN Answer("ok", "", "")
         ELSE FailureAnswer(v, out.post)

\* The call that the step has just made.
LastCall ==
  LET c == IF cpc' = "wait" THEN runs'[Len(runs')].calls ELSE calls'
  IN  c[Len(c)]

\* A stage of the run whose collaborator behaves as the outcomes say.
StageUnder(stage_step) ==
  /\ stage_step
  /\ LastCall.ans = AnswerOf(variant, LastCall.stage, outcomes[1])

\* The event for the merge request is handed to the service, once to each.
PairDetect ==
  /\ mr_queue = << >>
  /\ ConsumerIdle(cpc)
  /\ Len(runs) = detected
  /\ (detected = 0 /\ variant = "mcp") \/ (detected = 1 /\ variant = "standalone")
  /\ Detect
  /\ mr_queue'[1].url = outcomes[1].url

\* The merge request and its collaborators are next met by the service that
\* runs StandaloneOrchestrator.
PairSwitch ==
  /\ variant = "mcp"
  /\ Len(runs) = 1
  /\ ConsumerIdle(cpc)
  /\ variant' = "standalone"
  /\ UNCHANGED <<allowed_states, getter_woken, detected, cpc, mr_info, calls, summary, runs, notes>>
  /\ UNCHANGED <<pollerVars, mr_queue, storeVars, serviceVars, classifyVars, utilVars>>

PairInit ==
  /\ PollerInit
  /\ ConsumerInit
  /\ StoreInit
  /\ ServiceStarted
  /\ ClassifyIdle
  /\ extracted = None
  /\ ref_url = << >>
  /\ parsed = None
  /\ RedisIdle
  /\ PromptIdle
  /\ variant = "mcp"
  /\ allowed_states \in {{"opened"}, {"opened", "merged"}}
  /\ outcomes \in {Some(out) : out \in Outcomes}

PairNext ==
  \/ PairDetect
  \/ ConsumerGet
  \/ StageUnder(StageParse)
  \/ StageUnder(StageMetadata)
  \/ StageUnder(StageChanges)
  \/ StageUnder(StageSummarize)
  \/ StageUnder(StagePost)
  \/ PairSwitch

PairSpec == PairInit /\ [][PairNext]_vars

\* C37: under the same outcomes of the collaborators the run of
\* MCPOrchestrator and the run of StandaloneOrchestrator invoke the same
\* stages in the same order and return the same boolean.
C37_OrchestratorsEquivalent ==
  Len(runs) = 2 =>
    /\ StagesOf(runs[1].calls) = StagesOf(runs[2].calls)
    /\ runs[1].success = runs[2].success

\* What the code keeps of C37: the two runs agree whenever the request to
\* Ollama succeeds or the summarizer's server cannot be reached.
C37_EquivalentUnlessOllamaFails ==
  (Len(runs) = 2 /\ outcomes[1].summarize \in {"ok", "server_unreachable"}) =>
    /\ StagesOf(runs[1].calls) = StagesOf(runs[2].calls)
    /\ runs[1].success = runs[2].success

\* ------------------------------------------- a search result past the cap
\* The kinds of message check_emails tells apart, all of them decodable: an
\* assignment with a reference, a message from before the start, a message
\* without a marker, and an assignment without a reference.
ScanKinds ==
  << [date |-> Some(1), marker |-> TRUE, url |-> Some("mr_url"), decodable |-> TRUE],
     [date |-> Some(0), marker |-> TRUE, url |-> Some("mr_url"), decodable |-> TRUE],
     [date |-> None, marker |-> FALSE, url |-> None, decodable |-> TRUE],
     [date |-> None, marker |-> TRUE, url |-> None, decodable |-> TRUE] >>

\* A mailbox of n messages whose kinds rotate, starting at the given kind.
ScanMailbox(n, first) ==
  [i \in 1..n |-> ScanKinds[((i + first) % Len(ScanKinds)) + 1]]

\* The last ScanCap ids of a search result over the whole mailbox.
ScanWindow == {id \in DOMAIN mailbox : id > Len(mailbox) - ScanCap}

\* The poller starts on a mailbox that holds about ScanCap matching messages,
\* some of them marked by an earlier process.
ScanInit ==
  /\ \E n \in (ScanCap - 1)..(ScanCap + MaxOverflow), first \in 0..1 :
       /\ mailbox = ScanMailbox(n, first)
       /\ processed_file \in {None, SaveProcessedEmails({1, n - 1}, 0)}
  /\ start_time = 1
  /\ processed_emails = LoadProcessedEmails(processed_file)
  /\ ppc = "idle"
  /\ email_ids = << >>
  /\ idx = 1
  /\ new_assignments = 0
  /\ last_cycle = "none"
  /\ repeat = FALSE
  /\ examined = {}
  /\ emitted = [i \in 1..(ScanCap + MaxOverflow) |-> << >>]
  /\ handed = << >>
  /\ evaluated = {}
  /\ mr_queue = << >>
  /\ ConsumerInit
  /\ StoreInit
  /\ ServiceStarted
  /\ ClassifyIdle
  /\ UtilIdle
  /\ variant = "mcp"
  /\ allowed_states = {"opened"}

ScanNext ==
  \/ PollConnect
  \/ PollConnectFail
  \/ PollSkip
  \/ PollFetchFail
  \/ PollExamine
  \/ PollFinish

ScanSpec == ScanInit /\ [][ScanNext]_vars

\* C38: no step of a poll cycle fetches, classifies, marks or emits an id of
\* the search result that lies outside its last ScanCap ids, and no step
\* fetches an id inside them that is already in the processed set.
C38_ScanCap ==
  [][LET window == ScanWindow
         outside == DOMAIN mailbox \ window
     IN  /\ examined' \subseteq window
         /\ \A e \in evaluated' : e[1] \in window
         /\ \A id \in outside :
              /\ id \in processed_emails' => id \in processed_emails
              /\ emitted'[id] = << >>
         /\ \A id \in examined' \ examined : id \notin processed_emails]_vars

\* A cycle over a search result longer than ScanCap has completed: the first
\* id of the window was fetched, an id before the window was left alone, and
\* an id of the window that an earlier process had marked was skipped.
C38_Witness ==
  /\ Len(mailbox) > ScanCap
  /\ last_cycle = "completed"
  /\ Len(mailbox) - ScanCap + 1 \in examined
  /\ \E id \in DOMAIN mailbox \ ScanWindow : id \notin processed_emails
  /\ \E id \in ScanWindow : id \in processed_emails /\ id \notin examined

====
